---------------------------- MODULE Spec2Model ----------------------------
(***************************************************************************)
(* DUML protocol engine of the DJI Osmo BLE controller: message codec,     *)
(* sequence counter, stream framer and the BLE transport's receive path.   *)
(* Buffers are sequences of bytes (0..255); JavaScript's 0-based indices   *)
(* are kept in the helpers At and BufSlice.                                *)
(***************************************************************************)
EXTENDS Integers, Sequences, FiniteSets, TLC

VARIABLES
    msgSeq,         \* module-level `let msgSeq` of the codec (one per process)
    receiveBuffer,  \* BleTransport._receiveBuffer, per connection
    paired,         \* OsmoConnection._paired, per connection
    battery,        \* OsmoConnection._battery, per connection (Undefined for null)
    gimbalState,    \* GimbalController._state, per connection (angles in tenths)
    events,         \* events emitted by each OsmoConnection, in order
    emitted,        \* log of each transport's 'message' events, in order
    emittedAt,      \* ghost: stream offset of the first byte of each emitted frame
    stream,         \* ghost: every byte handed to _processIncoming so far
    dropped,        \* ghost: the byte runs parseStream discarded, as [at, len, rule]
    sending,        \* the item the peripheral is sending (Idle when none)
    wire,           \* bytes of that item BLE has not delivered yet
    bufAtSend,      \* ghost: receiveBuffer when the item was sent
    emittedAtSend,  \* ghost: number of 'message' events when the item was sent
    nChunks,        \* ghost: notifications that have carried bytes of the item
    nItems,         \* number of items the peripheral has sent
    pc,             \* where each OsmoConnection.connect() call stands
    peripheral,     \* BleTransport._peripheral is set, per connection
    fff4,           \* BleTransport._fff4 is set, per connection
    fff5,           \* BleTransport._fff5 is set, per connection
    connected,      \* BleTransport._connected, per connection
    linkUp,         \* the BLE link is up: notifications can arrive
    polls,          \* loop counter i of _pair, per connection
    written,        \* writes handed to the characteristics, in order
    built,          \* ghost: sequence ids of the frames built for each connection
    cmds,           \* number of gimbal commands issued, per connection
    cmdError,       \* what the last gimbal command threw or rejected with ("none" if nothing)
    error,          \* the error the last connect() rejected with ("none" if none)
    connects,       \* number of connect() calls made, per connection
    evAtConnect,    \* ghost: number of events emitted when connect() was called
    pairedAtConnect,  \* ghost: _paired when connect() was called
    writtenAtConnect, \* ghost: number of writes made when connect() was called
    bufAtConnect,   \* ghost: _receiveBuffer when the link came up
    cPhase,         \* codec harness: "idle" or "ready" (inputs drawn, call pending)
    cArgs,          \* codec harness: the drawn inputs of the pending/last call
    cBuilt,         \* codec harness: outcome of the last buildMessage call
    cResetVal,      \* codec harness: value of the last resetSequence (or the initial value)
    cSeqs,          \* codec harness: counter value before each call since the reset
    cIds,           \* codec harness: sequence id carried by each call since the reset
    dIn,            \* decode harness: the drawn input and its checksum-altered twin
    dOut            \* decode harness: parseMessage and parseStream of both

codecVars == <<cPhase, cArgs, cBuilt, cResetVal, cSeqs, cIds, dIn, dOut>>
connVars == <<paired, battery, gimbalState, events>>
framerVars == <<receiveBuffer, emitted, emittedAt, stream, dropped>>
peerVars == <<sending, wire, bufAtSend, emittedAtSend, nChunks, nItems>>
flowVars == <<pc, peripheral, fff4, fff5, connected, linkUp, polls, written, built, cmds,
              cmdError>>
sessVars == <<connects, evAtConnect, pairedAtConnect, writtenAtConnect, bufAtConnect>>
vars == <<msgSeq, codecVars, connVars, framerVars, peerVars, flowVars, error, sessVars>>

Conns == {"c1", "c2"}

----------------------------------------------------------------------------
(* Protocol constants                                                      *)

MAGIC == 85
HEADER_AND_CRC == 13
MAX_FRAME == 1024
SEQ_DEFAULT == 256
UINT16_MAX == 65535
ADDR_APP == 2
ADDR_GIMBAL == 4
ADDR_WIFI == 7
FLAG_REQUEST == 64
FLAG_RESPONSE == 192
FLAG_NOTIFY == 0
CMD_SET_GIMBAL == 4
CMD_SET_BATTERY == 6
CMD_SET_WIFI == 7
GIMBAL_SPEED_CTRL == 12
GIMBAL_PARAMS_GET == 5
WIFI_SET_PAIRING_PIN == 69
WIFI_PAIRING_APPROVED == 70
VERSION == 1

TARGET_APP_TO_GIMBAL == ADDR_APP + ADDR_GIMBAL * 256
TARGET_APP_TO_WIFI == ADDR_APP + ADDR_WIFI * 256

Byte == 0..255

\* JavaScript `undefined` (an out-of-range buffer read) and `null`
Undefined == -1
Null == <<-1>>
NoMsg == [null |-> TRUE]
Threw == [threw |-> TRUE]

----------------------------------------------------------------------------
(* Buffer helpers                                                          *)

\* buf[i], 0-based; undefined outside the buffer
At(buf, i) == IF i >= 0 /\ i < Len(buf) THEN buf[i + 1] ELSE Undefined

\* Buffer.slice index normalisation: negative counts from the end, then clamp
ClampIdx(i, n) ==
    IF i < 0 THEN (IF i + n < 0 THEN 0 ELSE i + n)
    ELSE (IF i > n THEN n ELSE i)

\* buf.slice(start, end)
BufSlice(buf, start, end) ==
    LET n == Len(buf)
        s == ClampIdx(start, n)
        e == ClampIdx(end, n)
    IN  IF e <= s THEN <<>> ELSE SubSeq(buf, s + 1, e)

\* buf.slice(start)
BufSliceFrom(buf, start) == BufSlice(buf, start, Len(buf))

\* variant: the last occurrence instead of the first (lastIndexOf)
IndexOf_Last(buf, b) ==
    IF \E i \in 1..Len(buf) : buf[i] = b
    THEN (CHOOSE i \in 1..Len(buf) : buf[i] = b /\ \A j \in (i + 1)..Len(buf) : buf[j] # b) - 1
    ELSE -1

\* buf.indexOf(b): first 0-based index of b, or -1
IndexOf(buf, b) ==
    IF \E i \in 1..Len(buf) : buf[i] = b
    THEN (CHOOSE i \in 1..Len(buf) : buf[i] = b /\ \A j \in 1..(i - 1) : buf[j] # b) - 1
    ELSE -1

----------------------------------------------------------------------------
(* Checksum engine: the crc-full calculators configured by CRC_PARAMS      *)

CRC8 == [width |-> 8, poly |-> 49, init |-> 238, xorOut |-> 0,
         refIn |-> TRUE, refOut |-> TRUE]
CRC16 == [width |-> 16, poly |-> 4129, init |-> 18796, xorOut |-> 0,
          refIn |-> TRUE, refOut |-> TRUE]

\* a table that is computed once (comparing it enumerates it)
Tabulated(t) == IF t = t THEN t ELSE t

RECURSIVE XorBits(_, _, _)
\* a ^ b bit by bit on w-bit values
XorBits(a, b, w) ==
    IF w = 0 THEN 0
    ELSE (((a % 2) + (b % 2)) % 2) + 2 * XorBits(a \div 2, b \div 2, w - 1)

\* a ^ b for every pair of bytes
XorByte == Tabulated([a \in Byte |-> Tabulated([b \in Byte |-> XorBits(a, b, 8)])])

\* a ^ b on w-bit values (w = 8 or 16), byte by byte
BitXor(a, b, w) ==
    IF w <= 8 THEN XorByte[a][b]
    ELSE XorByte[a % 256][b % 256] + 256 * XorByte[a \div 256][b \div 256]

RECURSIVE ReflectBits(_, _)
\* bit reversal of a w-bit value, bit by bit
ReflectBits(x, w) ==
    IF w = 0 THEN 0
    ELSE (x % 2) * (2 ^ (w - 1)) + ReflectBits(x \div 2, w - 1)

\* bit reversal of every byte
ReflectByte == Tabulated([b \in Byte |-> ReflectBits(b, 8)])

\* bit reversal of a w-bit value (w = 8 or 16)
Reflect(x, w) ==
    IF w <= 8 THEN ReflectByte[x]
    ELSE ReflectByte[x % 256] * 256 + ReflectByte[x \div 256]

RECURSIVE TableBits(_, _, _)
\* eight shift/xor steps of the table construction
TableBits(p, cur, n) ==
    IF n = 0 THEN cur
    ELSE LET msb == cur \div (2 ^ (p.width - 1))
             shl == (cur * 2) % (2 ^ p.width)
         IN  TableBits(p, IF msb # 0 THEN BitXor(shl, p.poly, p.width) ELSE shl, n - 1)

MakeCrcTable(p) ==
    Tabulated([d \in Byte |-> TableBits(p, (d * (2 ^ (p.width - 8))) % (2 ^ p.width), 8)])

Crc8Table == MakeCrcTable(CRC8)
Crc16Table == MakeCrcTable(CRC16)

\* one byte of compute(): xor into the top byte, shift it out, xor the table entry
CrcStep(p, table, crc, b) ==
    LET curByte == IF p.refIn THEN Reflect(b, 8) ELSE b
        c1 == BitXor(crc, curByte * (2 ^ (p.width - 8)), p.width)
        pos == c1 \div (2 ^ (p.width - 8))
        c2 == (c1 * 256) % (2 ^ p.width)
    IN  BitXor(c2, table[pos], p.width)

RECURSIVE CrcFold(_, _, _, _, _, _)
\* the byte loop of compute() over data[lo..hi] (evaluated by halving the range)
CrcFold(p, table, crc, data, lo, hi) ==
    IF lo > hi THEN crc
    ELSE IF lo = hi THEN CrcStep(p, table, crc, data[lo])
    ELSE LET mid == (lo + hi) \div 2
             left == CrcFold(p, table, crc, data, lo, mid)
         IN  IF left >= 0 THEN CrcFold(p, table, left, data, mid + 1, hi) ELSE left

CrcCompute(p, table, data) ==
    LET crc == CrcFold(p, table, p.init, data, 1, Len(data))
        out == IF p.refOut THEN Reflect(crc, p.width) ELSE crc
    IN  BitXor(out, p.xorOut, p.width)

computeCrc8(data) == CrcCompute(CRC8, Crc8Table, data)
computeCrc16(data) == CrcCompute(CRC16, Crc16Table, data)

----------------------------------------------------------------------------
(* Message codec                                                           *)

\* byte 1: totalLen & 0xFF
LengthLow(totalLen) == totalLen % 256

\* byte 2: ((totalLen >> 8) & 0x03) | (version << 2)
LengthHigh(totalLen) == ((totalLen \div 256) % 4) + VERSION * 4

\* buf.writeUInt16LE(v): low byte first
UInt16LE(v) == <<v % 256, (v \div 256) % 256>>

\* variant: the sequence id written low byte first
UInt16BE_LowFirst(v) == <<v % 256, (v \div 256) % 256>>

\* buf.writeUInt16BE(v): high byte first
UInt16BE(v) == <<(v \div 256) % 256, v % 256>>

\* buf.writeUInt16BE / writeUInt16LE throw a RangeError outside 0..0xFFFF
UInt16InRange(v) == v >= 0 /\ v <= UINT16_MAX

\* payload ? payload.length : 0
PayloadLen(payload) == IF payload # Null THEN Len(payload) ELSE 0

\* the bytes payload.copy() puts at offset 11
PayloadBytes(payload) == IF payload # Null /\ Len(payload) > 0 THEN payload ELSE <<>>

\* variant: the CRC-16 is taken over the 11 header bytes only, before the
\* payload is copied in
buildMessage_CrcBeforePayload(target, flags, cmdSet, cmdId, payload, seq) ==
    LET payloadLen == PayloadLen(payload)
        totalLen == HEADER_AND_CRC + payloadLen
        head == <<MAGIC, LengthLow(totalLen), LengthHigh(totalLen)>>
        header == head \o <<computeCrc8(head)>> \o UInt16LE(target) \o UInt16BE(seq)
                  \o <<flags % 256, cmdSet % 256, cmdId % 256>>
    IN  IF ~UInt16InRange(seq) THEN Threw
        ELSE [threw |-> FALSE,
              buf |-> header \o PayloadBytes(payload) \o UInt16LE(computeCrc16(header))]

\* buildMessage(target, flags, cmdSet, cmdId, payload) with the counter at seq:
\* the returned buffer, or Threw when writeUInt16BE rejects the sequence id
buildMessage(target, flags, cmdSet, cmdId, payload, seq) ==
    LET payloadLen == PayloadLen(payload)
        totalLen == HEADER_AND_CRC + payloadLen
        head == <<MAGIC, LengthLow(totalLen), LengthHigh(totalLen)>>
        body == head \o <<computeCrc8(head)>> \o UInt16LE(target) \o UInt16BE(seq)
                \o <<flags % 256, cmdSet % 256, cmdId % 256>> \o PayloadBytes(payload)
    IN  IF ~UInt16InRange(seq) THEN Threw
        ELSE [threw |-> FALSE, buf |-> body \o UInt16LE(computeCrc16(body))]

\* the sequence id a returned buffer carries at offsets 6..7 (big-endian)
CarriedId(r) == IF r.threw THEN Undefined ELSE At(r.buf, 6) * 256 + At(r.buf, 7)

\* msgSeq++ : the value the counter holds after a buildMessage call
NextSeq(seq) == seq + 1

\* the 10-bit length field: data[1] | ((data[2] & 0x03) << 8)
LengthField(data) == At(data, 1) + (At(data, 2) % 4) * 256

\* variant: the payload slice runs to the end of the frame, trailing CRC included
parseMessage_PayloadKeepsCrc(data) ==
    IF Len(data) < HEADER_AND_CRC \/ At(data, 0) # MAGIC THEN NoMsg
    ELSE LET len == LengthField(data)
         IN  IF Len(data) < len THEN NoMsg
             ELSE [length |-> len,
                   sender |-> At(data, 4),
                   receiver |-> At(data, 5),
                   msgId |-> At(data, 6) * 256 + At(data, 7),
                   flags |-> At(data, 8),
                   cmdSet |-> At(data, 9),
                   cmdId |-> At(data, 10),
                   payload |-> BufSlice(data, 11, len),
                   raw |-> BufSlice(data, 0, len)]

\* variant: a frame whose header CRC-8 does not match is rejected
parseMessage_ChecksHeaderCrc(data) ==
    IF Len(data) < HEADER_AND_CRC \/ At(data, 0) # MAGIC
       \/ At(data, 3) # computeCrc8(BufSlice(data, 0, 3)) THEN NoMsg
    ELSE LET len == LengthField(data)
         IN  IF Len(data) < len THEN NoMsg
             ELSE [length |-> len,
                   sender |-> At(data, 4),
                   receiver |-> At(data, 5),
                   msgId |-> At(data, 6) * 256 + At(data, 7),
                   flags |-> At(data, 8),
                   cmdSet |-> At(data, 9),
                   cmdId |-> At(data, 10),
                   payload |-> BufSlice(data, 11, len - 2),
                   raw |-> BufSlice(data, 0, len)]

\* parseMessage(data): a frame record, or NoMsg for null
parseMessage(data) ==
    IF Len(data) < HEADER_AND_CRC \/ At(data, 0) # MAGIC THEN NoMsg
    ELSE LET len == LengthField(data)
         IN  IF Len(data) < len THEN NoMsg
             ELSE [length |-> len,
                   sender |-> At(data, 4),
                   receiver |-> At(data, 5),
                   msgId |-> At(data, 6) * 256 + At(data, 7),
                   flags |-> At(data, 8),
                   cmdSet |-> At(data, 9),
                   cmdId |-> At(data, 10),
                   payload |-> BufSlice(data, 11, len - 2),
                   raw |-> BufSlice(data, 0, len)]

\* variant: unshift instead of push
Push_Front(messages, msg) == <<msg>> \o messages

\* messages.push(msg)
Push(messages, msg) == Append(messages, msg)

\* variant: the bytes before the magic byte are kept
SkipToMagic_Keep(buffer, magicIdx) == buffer

\* if (magicIdx > 0) buffer = buffer.slice(magicIdx)
SkipToMagic(buffer, magicIdx) ==
    IF magicIdx > 0 THEN BufSliceFrom(buffer, magicIdx) ELSE buffer

\* variant: the three bytes read as a header are discarded together
DropOne_Header(buffer) == BufSliceFrom(buffer, 3)

\* variant: two bytes are discarded after a spurious magic byte
DropOne_Two(buffer) == BufSliceFrom(buffer, 2)

\* buffer = buffer.slice(1)
DropOne(buffer) == BufSliceFrom(buffer, 1)

\* ghost record of a discarded run: offset in the buffer given to parseStream,
\* number of bytes, and the branch of the loop that discarded it
Dropped(at, len, rule) == [at |-> at, len |-> len, rule |-> rule]

\* ghost: out with a discarded run recorded (empty runs are not recorded)
NoteDrop(out, at, len, rule) ==
    IF len > 0 THEN [out EXCEPT !.dropped = Append(@, Dropped(at, len, rule))] ELSE out

RECURSIVE ParseLoop(_, _, _)
\* the while loop of parseStream; out.offsets and out.dropped are ghosts
\* recording where in the buffer given to parseStream (n bytes) each pushed
\* message started and which runs of bytes were discarded
ParseLoop(buffer, out, n) ==
    IF Len(buffer) < HEADER_AND_CRC THEN [out EXCEPT !.remaining = buffer]
    ELSE LET magicIdx == IndexOf(buffer, MAGIC) IN
         IF magicIdx = -1
         THEN [NoteDrop(out, n - Len(buffer), Len(buffer), "noMagic")
                  EXCEPT !.remaining = <<>>]
         ELSE LET b1 == SkipToMagic(buffer, magicIdx)
                  o1 == NoteDrop(out, n - Len(buffer), magicIdx, "beforeMagic")
              IN
              IF Len(b1) < 4 THEN [o1 EXCEPT !.remaining = b1]
              ELSE LET msgLen == LengthField(b1) IN
                   IF msgLen < HEADER_AND_CRC \/ msgLen > MAX_FRAME
                   THEN ParseLoop(DropOne(b1), NoteDrop(o1, n - Len(b1), 1, "badLength"), n)
                   ELSE IF Len(b1) < msgLen THEN [o1 EXCEPT !.remaining = b1]
                   ELSE LET msgData == BufSlice(b1, 0, msgLen)
                            rest == BufSliceFrom(b1, msgLen)
                            msg == parseMessage(msgData)
                        IN  ParseLoop(rest,
                                      IF msg # NoMsg
                                      THEN [o1 EXCEPT !.messages = Push(@, msg),
                                                      !.offsets = Append(@, n - Len(b1))]
                                      ELSE NoteDrop(o1, n - Len(b1), msgLen, "unparsed"),
                                      n)

\* variant: the buffer as it was passed in is returned as the remainder
parseStream_StaleRemainder(buffer) ==
    [ParseLoop(buffer,
               [messages |-> <<>>, offsets |-> <<>>, dropped |-> <<>>, remaining |-> <<>>],
               Len(buffer))
        EXCEPT !.remaining = buffer]

\* parseStream(buffer): { messages, remaining }
parseStream(buffer) ==
    ParseLoop(buffer,
              [messages |-> <<>>, offsets |-> <<>>, dropped |-> <<>>, remaining |-> <<>>],
              Len(buffer))

\* variant: the bytes without the length prefix
packString_NoLength(str) == str

\* packString(str): length byte, then the UTF-8 bytes
packString(str) == <<Len(str) % 256>> \o str

----------------------------------------------------------------------------
(* Message routing: OsmoConnection._handleMessage and the gimbal handler.  *)
(* st is the connection's mutable state [paired, battery, gimbal, events]. *)

Event(name, arg) == [name |-> name, arg |-> arg]

\* payload.readInt16LE(off)
ReadInt16LE(buf, off) ==
    LET u == At(buf, off) + At(buf, off + 1) * 256
    IN  IF u >= 32768 THEN u - 65536 ELSE u

\* flags & 0x80
ResponseBit(flags) == (flags \div 128) % 2 = 1

\* GimbalController.handleMessage(msg); 'state' is forwarded as 'gimbalState'
gimbalHandleMessage(st, msg) ==
    IF msg.cmdSet # CMD_SET_GIMBAL THEN st
    ELSE IF msg.cmdId = GIMBAL_PARAMS_GET /\ Len(msg.payload) >= 6
    THEN [st EXCEPT !.gimbal = [pitch |-> ReadInt16LE(msg.payload, 0),
                                roll |-> ReadInt16LE(msg.payload, 2),
                                yaw |-> ReadInt16LE(msg.payload, 4),
                                mode |-> IF Len(msg.payload) >= 7
                                         THEN At(msg.payload, 6) ELSE @.mode],
                    !.events = Append(@, Event("gimbalState", 0))]
    ELSE st

\* variant: the status is always the first payload byte
PairingStatus_First(payload) == At(payload, 0)

\* the status byte of a SET_PAIRING_PIN response
PairingStatus(payload) == IF Len(payload) >= 2 THEN At(payload, 1) ELSE At(payload, 0)

\* variant: a WiFi frame that matches no pairing case falls through to
\* 'rawMessage'
handleMessage_WifiFallsThrough(st, msg) ==
    IF msg = NoMsg THEN st
    ELSE IF msg.cmdSet = CMD_SET_GIMBAL THEN gimbalHandleMessage(st, msg)
    ELSE IF msg.cmdSet = CMD_SET_WIFI /\ msg.cmdId = WIFI_SET_PAIRING_PIN
            /\ ResponseBit(msg.flags) /\ PairingStatus(msg.payload) = 1
    THEN [st EXCEPT !.paired = TRUE, !.events = Append(@, Event("paired", 1))]
    ELSE IF msg.cmdSet = CMD_SET_WIFI /\ msg.cmdId = WIFI_SET_PAIRING_PIN
            /\ ResponseBit(msg.flags) /\ PairingStatus(msg.payload) = 2
    THEN [st EXCEPT !.events = Append(@, Event("pairingRequired", 0))]
    ELSE IF msg.cmdSet = CMD_SET_WIFI /\ msg.cmdId = WIFI_PAIRING_APPROVED
            /\ At(msg.payload, 0) = 1
    THEN [st EXCEPT !.paired = TRUE, !.events = Append(@, Event("paired", 0))]
    ELSE IF msg.cmdSet = CMD_SET_BATTERY /\ Len(msg.payload) >= 1
    THEN [st EXCEPT !.battery = At(msg.payload, 0),
                    !.events = Append(@, Event("battery", At(msg.payload, 0)))]
    ELSE [st EXCEPT !.events = Append(@, Event("rawMessage", msg.msgId))]

\* OsmoConnection._handleMessage(msg)
handleMessage(st, msg) ==
    IF msg = NoMsg THEN st
    ELSE IF msg.cmdSet = CMD_SET_GIMBAL THEN gimbalHandleMessage(st, msg)
    ELSE IF msg.cmdSet = CMD_SET_WIFI THEN
        IF msg.cmdId = WIFI_SET_PAIRING_PIN /\ ResponseBit(msg.flags) THEN
            IF PairingStatus(msg.payload) = 1
            THEN [st EXCEPT !.paired = TRUE, !.events = Append(@, Event("paired", 1))]
            ELSE IF PairingStatus(msg.payload) = 2
            THEN [st EXCEPT !.events = Append(@, Event("pairingRequired", 0))]
            ELSE st
        ELSE IF msg.cmdId = WIFI_PAIRING_APPROVED /\ At(msg.payload, 0) = 1
        THEN [st EXCEPT !.paired = TRUE, !.events = Append(@, Event("paired", 0))]
        ELSE st
    ELSE IF msg.cmdSet = CMD_SET_BATTERY /\ Len(msg.payload) >= 1
    THEN [st EXCEPT !.battery = At(msg.payload, 0),
                    !.events = Append(@, Event("battery", At(msg.payload, 0)))]
    ELSE [st EXCEPT !.events = Append(@, Event("rawMessage", msg.msgId))]

RECURSIVE HandleAll(_, _, _)
\* for (const msg of messages) this.emit('message', msg), the listener being
\* _handleMessage
HandleAll(st, messages, i) ==
    IF i > Len(messages) THEN st
    ELSE HandleAll(handleMessage(st, messages[i]), messages, i + 1)

\* variant: the new chunk is put in front of the carried remainder
ConcatChunk_ChunkFirst(buffer, data) == data \o buffer

\* variant: the carried remainder is not prepended to the new chunk
ConcatChunk_DropsRemainder(buffer, data) == data

\* Buffer.concat([this._receiveBuffer, data])
ConcatChunk(buffer, data) == buffer \o data

\* BleTransport._processIncoming(data) of connection c
ProcessIncoming(c, data) ==
    LET r == parseStream(ConcatChunk(receiveBuffer[c], data))
        base == Len(stream[c]) - Len(receiveBuffer[c])
        st == HandleAll([paired |-> paired[c], battery |-> battery[c],
                         gimbal |-> gimbalState[c], events |-> events[c]],
                        r.messages, 1)
    IN  /\ receiveBuffer' = [receiveBuffer EXCEPT ![c] = r.remaining]
        /\ emitted' = [emitted EXCEPT ![c] = @ \o r.messages]
        /\ emittedAt' = [emittedAt EXCEPT
                           ![c] = @ \o [i \in 1..Len(r.offsets) |-> base + r.offsets[i]]]
        /\ stream' = [stream EXCEPT ![c] = @ \o data]
        /\ dropped' = [dropped EXCEPT
                         ![c] = @ \o [i \in 1..Len(r.dropped) |->
                                        [r.dropped[i] EXCEPT !.at = base + @]]]
        /\ paired' = [paired EXCEPT ![c] = st.paired]
        /\ battery' = [battery EXCEPT ![c] = st.battery]
        /\ gimbalState' = [gimbalState EXCEPT ![c] = st.gimbal]
        /\ events' = [events EXCEPT ![c] = st.events]

----------------------------------------------------------------------------
(* The peripheral and the BLE link: what arrives as notification chunks    *)

\* items the peripheral sends on one connection
MaxItems == 2

\* a frame as the peripheral encodes it (wire layout of the protocol)
DeviceFrame(sender, receiver, seq, flags, cmdSet, cmdId, payload) ==
    buildMessage(sender + receiver * 256, flags, cmdSet, cmdId, payload, seq).buf

FramePinAck ==
    DeviceFrame(ADDR_WIFI, ADDR_APP, 1, FLAG_RESPONSE, CMD_SET_WIFI,
                WIFI_SET_PAIRING_PIN, <<0, 2>>)
FrameApproved ==
    DeviceFrame(ADDR_WIFI, ADDR_APP, 2, FLAG_NOTIFY, CMD_SET_WIFI,
                WIFI_PAIRING_APPROVED, <<1>>)
\* battery level 0x55 followed by bytes that read as a frame header
FrameBattery ==
    DeviceFrame(ADDR_GIMBAL, ADDR_APP, 3, FLAG_NOTIFY, CMD_SET_BATTERY, 2, <<85, 13, 4>>)
\* 20-byte telemetry frame: pitch -1.0, roll 0, yaw 85, mode 1
FrameTelemetry ==
    DeviceFrame(ADDR_GIMBAL, ADDR_APP, 4, FLAG_NOTIFY, CMD_SET_GIMBAL,
                GIMBAL_PARAMS_GET, <<246, 255, 0, 0, 85, 0, 1>>)
FrameEmpty ==
    DeviceFrame(ADDR_GIMBAL, ADDR_APP, 5, FLAG_NOTIFY, 0, 1, <<>>)

DeviceFrames == {FramePinAck, FrameApproved, FrameBattery, FrameTelemetry, FrameEmpty}

\* corrupted bytes without magic (2 and 14 bytes), and a stray magic with
\* length field 0
GarbageNoMagic == <<170, 187>>
GarbageLong == [i \in 1..14 |-> 160 + i]
GarbageStrayMagic == <<85, 0, 4>>
NoMagicGarbage == {GarbageNoMagic, GarbageLong}

\* garbage directly followed by a frame, and two frames back to back
ResyncItems == {g \o f : g \in NoMagicGarbage, f \in {FramePinAck, FrameTelemetry}}
MergedItems == {FramePinAck \o FrameApproved, FrameBattery \o FrameTelemetry}

Items == DeviceFrames \cup NoMagicGarbage \cup {GarbageStrayMagic}
         \cup ResyncItems \cup MergedItems

\* corrupted bytes ending in a magic byte, and a stray magic byte with a
\* length field of 200
GarbageTrailingMagic == <<170, 85>>
GarbageFakeHeader == <<85, 200, 4>>
MagicGarbage == {GarbageStrayMagic, GarbageTrailingMagic, GarbageFakeHeader}

\* what is fed to a framer that has to resynchronize: garbage, then a frame
ResyncFeed == NoMagicGarbage \cup MagicGarbage \cup DeviceFrames

\* the peripheral hands an item to the link once the previous one is delivered
PeripheralSend(c, item) ==
    /\ wire[c] = <<>>
    /\ nItems[c] < MaxItems
    /\ sending' = [sending EXCEPT ![c] = item]
    /\ wire' = [wire EXCEPT ![c] = item]
    /\ bufAtSend' = [bufAtSend EXCEPT ![c] = receiveBuffer[c]]
    /\ emittedAtSend' = [emittedAtSend EXCEPT ![c] = Len(emitted[c])]
    /\ nChunks' = [nChunks EXCEPT ![c] = 0]
    /\ nItems' = [nItems EXCEPT ![c] = @ + 1]
    /\ UNCHANGED <<msgSeq, codecVars, connVars, framerVars, flowVars, error, sessVars>>

\* one notification: the link delivers the next n bytes as one chunk, an item
\* arriving whole or cut in two at any point
Notify(c, n) ==
    /\ n >= 1 /\ n <= Len(wire[c])
    /\ Len(wire[c]) < Len(sending[c]) => n = Len(wire[c])
    /\ ProcessIncoming(c, SubSeq(wire[c], 1, n))
    /\ wire' = [wire EXCEPT ![c] = SubSeq(@, n + 1, Len(@))]
    /\ nChunks' = [nChunks EXCEPT ![c] = @ + 1]
    /\ UNCHANGED <<msgSeq, codecVars, sending, bufAtSend, emittedAtSend, nItems, flowVars,
                   error, sessVars>>

\* one notification of the other characteristic: fff4 and fff5 both call
\* _processIncoming, so a chunk of one arrives while an item of the other is
\* being delivered or between two items; it carries a whole frame
NotifyOther(c, item) ==
    /\ nItems[c] < MaxItems
    /\ nItems' = [nItems EXCEPT ![c] = @ + 1]
    /\ ProcessIncoming(c, item)
    /\ UNCHANGED <<msgSeq, codecVars, sending, wire, bufAtSend, emittedAtSend, nChunks,
                   flowVars, error, sessVars>>

----------------------------------------------------------------------------
(* OsmoConnection: connect(), _pair(), disconnect() and the gimbal commands *)

POLL_LIMIT == 30

\* gimbal commands issued on one connection
MaxCmds == 1

\* connect() calls made on one OsmoConnection
MaxConnects == 2

\* size of the first notification when the link cuts an item in two
FirstChunk == 5

\* DEFAULTS.PIN 'love' and DEFAULTS.IDENTIFIER '001749319286102' as UTF-8
PIN == <<108, 111, 118, 101>>
IDENTIFIER == <<48, 48, 49, 55, 52, 57, 51, 49, 57, 50, 56, 54, 49, 48, 50>>

\* payload.writeInt16LE(v)
Int16LE(v) == UInt16LE(IF v < 0 THEN v + 65536 ELSE v)

\* the payload setSpeed packs: pitch, roll, yaw in tenths, then the enable byte
SpeedPayload(pitchSpeed, yawSpeed, rollSpeed) ==
    Int16LE(pitchSpeed * 10) \o Int16LE(rollSpeed * 10) \o Int16LE(yawSpeed * 10) \o <<1>>

\* the payload _pair packs: identifier and PIN, each length-prefixed
CredentialsPayload == packString(IDENTIFIER) \o packString(PIN)

Speeds == {<<30, 0, 0>>, <<0, -30, 0>>}

Emit(c, name, arg) == events' = [events EXCEPT ![c] = Append(@, Event(name, arg))]

\* variant: a write overtakes the writes handed over before it
HandOver_Front(c, char, data) ==
    written' = [written EXCEPT ![c] = <<[char |-> char, data |-> data]>> \o @]

\* characteristic.write(data, withoutResponse, cb) on fff4 or fff5
HandOver(c, char, data) ==
    written' = [written EXCEPT ![c] = Append(@, [char |-> char, data |-> data])]

\* variant: a failed handshake write is caught and _pair carries on
Reject_Swallowed(c, err) ==
    /\ pc' = [pc EXCEPT ![c] = IF @ = "trigger" THEN "settle"
                                ELSE IF @ = "creds" THEN "polling" ELSE "failed"]
    /\ error' = [error EXCEPT ![c] = err]

\* the promise of connect() rejects with the named error
Reject(c, err) ==
    /\ pc' = [pc EXCEPT ![c] = "failed"]
    /\ error' = [error EXCEPT ![c] = err]

\* connect(): BleTransport.connect starts scanning; nothing of the connection
\* object is reset (the ghosts record what it holds at this point)
StartConnect(c) ==
    /\ pc' = [pc EXCEPT ![c] = "scanning"]
    /\ error' = [error EXCEPT ![c] = "none"]
    /\ polls' = [polls EXCEPT ![c] = 0]
    /\ connects' = [connects EXCEPT ![c] = @ + 1]
    /\ evAtConnect' = [evAtConnect EXCEPT ![c] = Len(events[c])]
    /\ pairedAtConnect' = [pairedAtConnect EXCEPT ![c] = paired[c]]
    /\ writtenAtConnect' = [writtenAtConnect EXCEPT ![c] = Len(written[c])]
    /\ UNCHANGED <<msgSeq, codecVars, connVars, framerVars, peerVars, peripheral, fff4,
                   fff5, connected, linkUp, written, built, cmds, cmdError, bufAtConnect>>

\* OsmoConnection.connect() is called on a new connection object
ConnectCall(c) ==
    /\ pc[c] = "idle"
    /\ StartConnect(c)

\* OsmoConnection.connect() is called again on the same object, after the
\* previous call has settled and the link has gone down
Reconnect(c) ==
    /\ pc[c] \in {"done", "failed"}
    /\ ~linkUp[c]
    /\ connects[c] < MaxConnects
    /\ StartConnect(c)

\* variant: the scan timer resolves connect() instead of rejecting it
ScanTimeout_Resolves(c) ==
    /\ pc[c] = "scanning"
    /\ pc' = [pc EXCEPT ![c] = "ready"]
    /\ error' = [error EXCEPT ![c] = "notFound"]
    /\ UNCHANGED <<msgSeq, codecVars, connVars, framerVars, peerVars, peripheral, fff4,
                   fff5, connected, linkUp, polls, written, built, cmds, cmdError, sessVars>>

\* the scan timer fires before the device is discovered: connect rejects
ScanTimeout(c) ==
    /\ pc[c] = "scanning"
    /\ Reject(c, "notFound")
    /\ UNCHANGED <<msgSeq, codecVars, connVars, framerVars, peerVars, peripheral, fff4,
                   fff5, connected, linkUp, polls, written, built, cmds, cmdError, sessVars>>

DiscoverOutcomes == {"ok", "connectError", "noService", "onlyFff4", "onlyFff5"}

\* onDiscover for the requested device, through to resolve() or reject():
\* the characteristics found are stored, and the fff4/fff5 check reads the
\* fields (which keep what an earlier connect stored)
Discover(c, outcome) ==
    /\ pc[c] = "scanning"
    /\ peripheral' = [peripheral EXCEPT ![c] = TRUE]
    /\ fff4' = [fff4 EXCEPT ![c] = @ \/ outcome \in {"ok", "onlyFff4"}]
    /\ fff5' = [fff5 EXCEPT ![c] = @ \/ outcome \in {"ok", "onlyFff5"}]
    /\ IF outcome \in {"ok", "onlyFff4", "onlyFff5"} /\ fff4'[c] /\ fff5'[c]
       THEN /\ connected' = [connected EXCEPT ![c] = TRUE]
            /\ linkUp' = [linkUp EXCEPT ![c] = TRUE]
            /\ events' = [events EXCEPT
                            ![c] = @ \o <<Event("found", 0), Event("connected", 0)>>]
            /\ pc' = [pc EXCEPT ![c] = "ready"]
            /\ bufAtConnect' = [bufAtConnect EXCEPT ![c] = receiveBuffer[c]]
            /\ UNCHANGED error
       ELSE /\ Emit(c, "found", 0)
            /\ Reject(c, IF outcome \in {"onlyFff4", "onlyFff5"}
                         THEN "noCharacteristics" ELSE outcome)
            /\ UNCHANGED <<connected, linkUp, bufAtConnect>>
    /\ UNCHANGED <<msgSeq, codecVars, paired, battery, gimbalState, framerVars, peerVars,
                   polls, written, built, cmds, cmdError, connects, evAtConnect, pairedAtConnect,
                   writtenAtConnect>>

\* the 1000 ms wait of connect() ends; _pair() writes the trigger to fff4
ReadyDelay(c) ==
    /\ pc[c] = "ready"
    /\ IF fff4[c]
       THEN /\ HandOver(c, "fff4", <<1, 0>>)
            /\ pc' = [pc EXCEPT ![c] = "trigger"]
            /\ UNCHANGED error
       ELSE UNCHANGED written /\ Reject(c, "notConnected")
    /\ UNCHANGED <<msgSeq, codecVars, connVars, framerVars, peerVars, peripheral, fff4,
                   fff5, connected, linkUp, polls, built, cmds, cmdError, sessVars>>

\* the trigger write completes (ok) or fails: a failure rejects _pair
TriggerDone(c, ok) ==
    /\ pc[c] = "trigger"
    /\ IF ok
       THEN pc' = [pc EXCEPT ![c] = "settle"] /\ UNCHANGED error
       ELSE Reject(c, "triggerWrite")
    /\ UNCHANGED <<msgSeq, codecVars, connVars, framerVars, peerVars, peripheral, fff4,
                   fff5, connected, linkUp, polls, written, built, cmds, cmdError, sessVars>>

\* the 200 ms settle delay ends: the credentials frame is built and written
SettleDelay(c) ==
    /\ pc[c] = "settle"
    /\ LET r == buildMessage(TARGET_APP_TO_WIFI, FLAG_REQUEST, CMD_SET_WIFI,
                             WIFI_SET_PAIRING_PIN, CredentialsPayload, msgSeq)
       IN  IF r.threw
           THEN /\ Reject(c, "rangeError")
                /\ UNCHANGED <<written, built>>
           ELSE /\ built' = [built EXCEPT ![c] = Append(@, CarriedId(r))]
                /\ IF fff5[c]
                   THEN /\ HandOver(c, "fff5", r.buf)
                        /\ pc' = [pc EXCEPT ![c] = "creds"]
                        /\ UNCHANGED error
                   ELSE UNCHANGED written /\ Reject(c, "notConnected")
    /\ msgSeq' = NextSeq(msgSeq)
    /\ UNCHANGED <<codecVars, connVars, framerVars, peerVars, peripheral, fff4, fff5,
                   connected, linkUp, polls, cmds, cmdError, sessVars>>

\* variant: _pair ends without the advisory event
FinishPair_Silent(c, evs) ==
    /\ events' = [events EXCEPT ![c] = evs]
    /\ pc' = [pc EXCEPT ![c] = "done"]

\* the end of _pair: 'pairingTimeout' unless paired; connect() resolves
FinishPair(c, evs) ==
    /\ events' = [events EXCEPT
                    ![c] = IF paired[c] THEN evs ELSE Append(evs, Event("pairingTimeout", 0))]
    /\ pc' = [pc EXCEPT ![c] = "done"]

\* the credentials write completes: 'pairing' is emitted and the wait begins
CredsDone(c, ok) ==
    /\ pc[c] = "creds"
    /\ IF ~ok
       THEN Reject(c, "credsWrite") /\ UNCHANGED <<events, polls>>
       ELSE /\ polls' = [polls EXCEPT ![c] = 0]
            /\ UNCHANGED error
            /\ IF 0 < POLL_LIMIT /\ ~paired[c]
               THEN Emit(c, "pairing", 0) /\ pc' = [pc EXCEPT ![c] = "polling"]
               ELSE FinishPair(c, Append(events[c], Event("pairing", 0)))
    /\ UNCHANGED <<msgSeq, codecVars, paired, battery, gimbalState, framerVars, peerVars,
                   peripheral, fff4, fff5, connected, linkUp, written, built, cmds, cmdError,
                   sessVars>>

\* variant: the loop condition looks at the counter only
Poll_IgnoresPaired(c) ==
    /\ pc[c] = "polling"
    /\ polls' = [polls EXCEPT ![c] = @ + 1]
    /\ IF polls[c] + 1 < POLL_LIMIT
       THEN UNCHANGED <<pc, events>>
       ELSE FinishPair(c, events[c])
    /\ UNCHANGED <<msgSeq, codecVars, paired, battery, gimbalState, framerVars, peerVars,
                   peripheral, fff4, fff5, connected, linkUp, written, built, cmds, cmdError,
                   error, sessVars>>

\* one 500 ms timer of the wait loop fires: i++, then the loop condition
Poll(c) ==
    /\ pc[c] = "polling"
    /\ polls' = [polls EXCEPT ![c] = @ + 1]
    /\ IF polls[c] + 1 < POLL_LIMIT /\ ~paired[c]
       THEN UNCHANGED <<pc, events>>
       ELSE FinishPair(c, events[c])
    /\ UNCHANGED <<msgSeq, codecVars, paired, battery, gimbalState, framerVars, peerVars,
                   peripheral, fff4, fff5, connected, linkUp, written, built, cmds, cmdError,
                   error, sessVars>>

\* the end of a gimbal command: the frame buildMessage returned is passed to
\* _send, that is BleTransport.write, which hands it to fff5 or throws
\* 'Not connected'; a throw of buildMessage leaves the command before that
SendCommand(c, r) ==
    IF r.threw
    THEN /\ cmdError' = [cmdError EXCEPT ![c] = "rangeError"]
         /\ UNCHANGED <<written, built>>
    ELSE /\ built' = [built EXCEPT ![c] = Append(@, CarriedId(r))]
         /\ IF fff5[c]
            THEN /\ HandOver(c, "fff5", r.buf)
                 /\ cmdError' = [cmdError EXCEPT ![c] = "none"]
            ELSE /\ UNCHANGED written
                 /\ cmdError' = [cmdError EXCEPT ![c] = "notConnected"]

\* gimbal.setSpeed(pitch, yaw, roll): the frame is built, then handed to
\* BleTransport.write, which rejects when fff5 is not set
GimbalSetSpeed(c, sp) ==
    /\ cmds[c] < MaxCmds
    /\ cmds' = [cmds EXCEPT ![c] = @ + 1]
    /\ LET r == buildMessage(TARGET_APP_TO_GIMBAL, FLAG_REQUEST, CMD_SET_GIMBAL,
                             GIMBAL_SPEED_CTRL, SpeedPayload(sp[1], sp[2], sp[3]), msgSeq)
       IN  SendCommand(c, r)
    /\ msgSeq' = NextSeq(msgSeq)
    /\ UNCHANGED <<codecVars, connVars, framerVars, peerVars, pc, peripheral, fff4, fff5,
                   connected, linkUp, polls, error, sessVars>>

GIMBAL_SET_MODE == 76
GIMBAL_MODE_LOCK == 0
GIMBAL_MODE_FOLLOW == 1
GIMBAL_MODE_FPV == 2

\* a value that is no number: what a property inherited from Object.prototype
\* holds (a function, or the prototype object itself)
Inherited == -2

\* the object literal modeMap of setMode: its own properties
modeMap == [lock |-> GIMBAL_MODE_LOCK, follow |-> GIMBAL_MODE_FOLLOW, fpv |-> GIMBAL_MODE_FPV]

\* names every object literal inherits from Object.prototype
ObjectPrototypeNames == {"constructor", "toString"}

\* modeMap[mode]: an own property, else an inherited one, else undefined
ModeLookup(mode) ==
    IF mode \in DOMAIN modeMap THEN modeMap[mode]
    ELSE IF mode \in ObjectPrototypeNames THEN Inherited
    ELSE Undefined

\* payload[0] = modeVal on a Buffer: the number modulo 256, and 0 for a value
\* that converts to NaN
ToUint8(v) == IF v = Inherited THEN 0 ELSE v % 256

\* the 2-byte payload of setMode
ModePayload(modeVal) == <<ToUint8(modeVal), 0>>

\* mode names passed to setMode: the three modes, two names that are no
\* property of anything, and two that Object.prototype defines
ModeNames == {"lock", "follow", "fpv", "pan", "", "constructor", "toString"}

\* gimbal.setMode(mode) with a mode name: the name is looked up and the call
\* throws if the lookup gives undefined; else the frame is built and sent
GimbalSetMode(c, mode) ==
    /\ cmds[c] < MaxCmds
    /\ cmds' = [cmds EXCEPT ![c] = @ + 1]
    /\ LET modeVal == ModeLookup(mode)
       IN  IF modeVal = Undefined
           THEN /\ cmdError' = [cmdError EXCEPT ![c] = "unknownMode"]
                /\ UNCHANGED <<msgSeq, written, built>>
           ELSE /\ SendCommand(c, buildMessage(TARGET_APP_TO_GIMBAL, FLAG_REQUEST,
                                               CMD_SET_GIMBAL, GIMBAL_SET_MODE,
                                               ModePayload(modeVal), msgSeq))
                /\ msgSeq' = NextSeq(msgSeq)
    /\ UNCHANGED <<codecVars, connVars, framerVars, peerVars, pc, peripheral, fff4, fff5,
                   connected, linkUp, polls, error, sessVars>>

\* the link goes down: bytes the peripheral had not delivered yet are lost
LinkDown(c) ==
    /\ linkUp' = [linkUp EXCEPT ![c] = FALSE]
    /\ wire' = [wire EXCEPT ![c] = <<>>]

\* variant: disconnect() also ends a wait loop that is running
Disconnect_Cancels(c) ==
    /\ peripheral[c]
    /\ connected' = [connected EXCEPT ![c] = FALSE]
    /\ LinkDown(c)
    /\ IF linkUp[c] THEN Emit(c, "disconnected", 0) ELSE UNCHANGED events
    /\ pc' = [pc EXCEPT ![c] = IF @ = "polling" THEN "done" ELSE @]
    /\ UNCHANGED <<msgSeq, codecVars, paired, battery, gimbalState, framerVars, sending,
                   bufAtSend, emittedAtSend, nChunks, nItems, peripheral, fff4, fff5,
                   polls, written, built, cmds, cmdError, error, sessVars>>

\* OsmoConnection.disconnect(): the link is closed (the peripheral's
\* 'disconnect' event fires if it was up) and _connected is cleared
Disconnect(c) ==
    /\ peripheral[c]
    /\ connected' = [connected EXCEPT ![c] = FALSE]
    /\ LinkDown(c)
    /\ IF linkUp[c] THEN Emit(c, "disconnected", 0) ELSE UNCHANGED events
    /\ UNCHANGED <<msgSeq, codecVars, paired, battery, gimbalState, framerVars, sending,
                   bufAtSend, emittedAtSend, nChunks, nItems, pc, peripheral, fff4, fff5,
                   polls, written, built, cmds, cmdError, error, sessVars>>

\* the peripheral drops the link: the once('disconnect') handler runs
PeripheralDisconnect(c) ==
    /\ linkUp[c]
    /\ connected' = [connected EXCEPT ![c] = FALSE]
    /\ LinkDown(c)
    /\ Emit(c, "disconnected", 0)
    /\ UNCHANGED <<msgSeq, codecVars, paired, battery, gimbalState, framerVars, sending,
                   bufAtSend, emittedAtSend, nChunks, nItems, pc, peripheral, fff4, fff5,
                   polls, written, built, cmds, cmdError, error, sessVars>>

\* frames the peripheral answers the handshake with
PairingItems == {FramePinAck, FrameApproved}

\* a SET_PAIRING_PIN frame from the device's WiFi module
StatusFrame(seq, flags, payload) ==
    DeviceFrame(ADDR_WIFI, ADDR_APP, seq, flags, CMD_SET_WIFI, WIFI_SET_PAIRING_PIN, payload)

\* SET_PAIRING_PIN frames with every kind of status: 0x01 and 0x02 as second
\* and as only payload byte, 0x01 as first of two bytes, another status, no
\* payload, and status 0x01 in a frame without the response bit
StatusFrames ==
    {StatusFrame(16, FLAG_RESPONSE, <<0, 1>>),
     StatusFrame(17, FLAG_RESPONSE, <<0, 2>>),
     StatusFrame(18, FLAG_RESPONSE, <<1>>),
     StatusFrame(19, FLAG_RESPONSE, <<2>>),
     StatusFrame(20, FLAG_RESPONSE, <<1, 0>>),
     StatusFrame(21, FLAG_RESPONSE, <<0, 3>>),
     StatusFrame(22, FLAG_RESPONSE, <<>>),
     StatusFrame(23, FLAG_REQUEST, <<0, 1>>),
     StatusFrame(24, FLAG_NOTIFY, <<1>>)}

\* frames of every command set: gimbal telemetry, a gimbal frame that is no
\* telemetry and telemetry too short to read; the pairing answers, a WiFi
\* frame of another command, an approval that is refused and one without
\* payload; battery with and without payload; two other command sets
RoutingFrames ==
    {FrameTelemetry,
     DeviceFrame(ADDR_GIMBAL, ADDR_APP, 32, FLAG_NOTIFY, CMD_SET_GIMBAL,
                 GIMBAL_SPEED_CTRL, <<1>>),
     DeviceFrame(ADDR_GIMBAL, ADDR_APP, 33, FLAG_NOTIFY, CMD_SET_GIMBAL,
                 GIMBAL_PARAMS_GET, <<1, 2>>),
     FramePinAck,
     FrameApproved,
     DeviceFrame(ADDR_WIFI, ADDR_APP, 34, FLAG_NOTIFY, CMD_SET_WIFI, 1, <<1>>),
     DeviceFrame(ADDR_WIFI, ADDR_APP, 35, FLAG_NOTIFY, CMD_SET_WIFI,
                 WIFI_PAIRING_APPROVED, <<0>>),
     DeviceFrame(ADDR_WIFI, ADDR_APP, 36, FLAG_NOTIFY, CMD_SET_WIFI,
                 WIFI_PAIRING_APPROVED, <<>>),
     FrameBattery,
     DeviceFrame(ADDR_GIMBAL, ADDR_APP, 37, FLAG_NOTIFY, CMD_SET_BATTERY, 2, <<>>),
     FrameEmpty,
     DeviceFrame(ADDR_GIMBAL, ADDR_APP, 38, FLAG_RESPONSE, 1, WIFI_SET_PAIRING_PIN,
                 <<0, 1>>)}

\* the sizes of the next notification: the rest of the item, or the first
\* FirstChunk bytes of an item longer than that
LinkChunks(c) ==
    {Len(wire[c])} \cup
    (IF Len(wire[c]) = Len(sending[c]) /\ Len(wire[c]) > FirstChunk
     THEN {FirstChunk} ELSE {})

\* the steps of one connection's connect(), handshake and commands
ConnectionStep(c) ==
    \/ ConnectCall(c)
    \/ ScanTimeout(c)
    \/ \E outcome \in DiscoverOutcomes : Discover(c, outcome)
    \/ ReadyDelay(c)
    \/ \E ok \in BOOLEAN : TriggerDone(c, ok)
    \/ SettleDelay(c)
    \/ \E ok \in BOOLEAN : CredsDone(c, ok)
    \/ Poll(c)
    \/ \E sp \in Speeds : GimbalSetSpeed(c, sp)
    \/ Disconnect(c)
    \/ PeripheralDisconnect(c)

\* notifications of a connected peripheral
LinkStep(c) ==
    \/ linkUp[c] /\ \E item \in PairingItems : PeripheralSend(c, item)
    \/ linkUp[c] /\ wire[c] # <<>> /\ \E n \in LinkChunks(c) : Notify(c, n)

----------------------------------------------------------------------------
(* Codec harness: a caller of resetSequence and buildMessage               *)

\* calls made between two resets
MaxCalls == 3

NoCall == [none |-> TRUE]

\* payload of n bytes, every byte value occurring (0x55 among them)
Fill(n) == [i \in 1..n |-> (i * 37) % 256]

SmallPayloads == {Null, <<>>, <<1>>, <<85, 13, 4, 51>>}
BigPayloadLens == {243, 1010, 1011}

CodecArgs ==
    [target : {TARGET_APP_TO_GIMBAL, TARGET_APP_TO_WIFI},
     flags : {FLAG_REQUEST, FLAG_RESPONSE, FLAG_NOTIFY},
     cmdSet : {CMD_SET_GIMBAL, CMD_SET_WIFI},
     cmdId : {GIMBAL_SPEED_CTRL, WIFI_SET_PAIRING_PIN},
     payload : SmallPayloads]
    \cup
    [target : {TARGET_APP_TO_GIMBAL}, flags : {FLAG_REQUEST},
     cmdSet : {CMD_SET_GIMBAL}, cmdId : {GIMBAL_SPEED_CTRL},
     payload : {Fill(n) : n \in BigPayloadLens}]

ResetVals == {SEQ_DEFAULT, 0, UINT16_MAX - 1}

\* resetSequence(val)
ResetSequence(v) ==
    /\ cPhase = "idle"
    /\ msgSeq' = v
    /\ cResetVal' = v
    /\ cSeqs' = <<>>
    /\ cIds' = <<>>
    /\ cBuilt' = NoCall
    /\ cArgs' = NoCall
    /\ UNCHANGED <<cPhase, dIn, dOut, connVars, framerVars, peerVars, flowVars, error,
                   sessVars>>

\* the caller chooses the arguments of its next buildMessage call
DrawInputs(a) ==
    /\ cPhase = "idle"
    /\ Len(cSeqs) < MaxCalls
    /\ cPhase' = "ready"
    /\ cArgs' = a
    /\ cBuilt' = NoCall
    /\ UNCHANGED <<msgSeq, cResetVal, cSeqs, cIds, dIn, dOut, connVars, framerVars,
                   peerVars, flowVars, error, sessVars>>

\* buildMessage(target, flags, cmdSet, cmdId, payload): msgSeq++ is evaluated
\* before writeUInt16BE can throw, so the counter advances either way
CallBuildMessage ==
    /\ cPhase = "ready"
    /\ LET r == buildMessage(cArgs.target, cArgs.flags, cArgs.cmdSet, cArgs.cmdId,
                             cArgs.payload, msgSeq)
       IN  /\ cBuilt' = r
           /\ cIds' = Append(cIds, CarriedId(r))
    /\ cSeqs' = Append(cSeqs, msgSeq)
    /\ msgSeq' = NextSeq(msgSeq)
    /\ cPhase' = "idle"
    /\ UNCHANGED <<cArgs, cResetVal, dIn, dOut, connVars, framerVars, peerVars, flowVars,
                   error, sessVars>>

----------------------------------------------------------------------------
(* Decode harness: a caller of parseMessage and parseStream                *)

\* a device frame with a 243-byte payload: 256 bytes, length low byte 0
FrameLong ==
    DeviceFrame(ADDR_GIMBAL, ADDR_APP, 6, FLAG_NOTIFY, CMD_SET_GIMBAL, 2, Fill(243))

\* data with its length field (bytes 1 and 2) overwritten by len
WithLength(data, len) ==
    [i \in 1..Len(data) |-> IF i = 2 THEN LengthLow(len)
                            ELSE IF i = 3 THEN LengthHigh(len) ELSE data[i]]

\* buffers handed to the decoder, each with the offset of its frame header:
\* nothing, 12 bytes, whole frames (13, 15, 16, 20 and 256 bytes), a frame
\* without magic, a frame cut after 13 bytes, a frame followed by more bytes
\* and by another frame, frames behind garbage, and 15-byte buffers whose
\* length field reads 0, 1, 2, 5 and 12
DecodeInputs ==
    {[data |-> d, at |-> 0] :
        d \in {<<>>, SubSeq(FrameEmpty, 1, 12), FrameEmpty, FramePinAck, FrameBattery,
               FrameTelemetry, FrameLong,
               [FrameTelemetry EXCEPT ![1] = 84],
               SubSeq(FrameTelemetry, 1, 13),
               FramePinAck \o <<170, 187, 85>>,
               FramePinAck \o FrameApproved}
              \cup {WithLength(FramePinAck, len) : len \in {0, 1, 2, 5, 12}}}
    \cup {[data |-> g \o f, at |-> Len(g)] :
             g \in NoMagicGarbage, f \in {FramePinAck, FrameTelemetry}}

\* offsets of the checksum bytes of the frame whose header is at in.at: the
\* header CRC-8, and the CRC-16 when the declared frame is complete
ChecksumOffsets(in) ==
    LET len == LengthField(BufSliceFrom(in.data, in.at))
        end == in.at + len
    IN  {o \in {in.at + 3} \cup
                (IF len >= HEADER_AND_CRC /\ end <= Len(in.data)
                 THEN {end - 2, end - 1} ELSE {}) :
            o < Len(in.data)}

AlterModes == {"same", "magic", "next"}

\* a checksum byte as left alone, overwritten with 0x55, or incremented
AlterByte(b, mode) ==
    IF mode = "magic" THEN MAGIC ELSE IF mode = "next" THEN (b + 1) % 256 ELSE b

\* in.data with its header CRC-8 altered by h and its CRC-16 bytes by t
AlterChecksums(in, h, t) ==
    [i \in 1..Len(in.data) |->
        IF (i - 1) \notin ChecksumOffsets(in) THEN in.data[i]
        ELSE AlterByte(in.data[i], IF i - 1 = in.at + 3 THEN h ELSE t)]

\* the caller chooses a buffer and a twin differing only in checksum bytes
DrawDecode(in, h, t) ==
    /\ dIn = NoCall \/ dOut # NoCall
    /\ dIn' = [data |-> in.data, at |-> in.at, alt |-> AlterChecksums(in, h, t)]
    /\ dOut' = NoCall
    /\ UNCHANGED <<msgSeq, cPhase, cArgs, cBuilt, cResetVal, cSeqs, cIds, connVars,
                   framerVars, peerVars, flowVars, error, sessVars>>

\* parseMessage and parseStream are called on both buffers
CallDecode ==
    /\ dIn # NoCall /\ dOut = NoCall
    /\ dOut' = [msg |-> parseMessage(dIn.data),
                altMsg |-> parseMessage(dIn.alt),
                framed |-> parseStream(dIn.data),
                altFramed |-> parseStream(dIn.alt)]
    /\ UNCHANGED <<msgSeq, cPhase, cArgs, cBuilt, cResetVal, cSeqs, cIds, dIn, connVars,
                   framerVars, peerVars, flowVars, error, sessVars>>

InitConn ==
    /\ paired = [c \in Conns |-> FALSE]
    /\ battery = [c \in Conns |-> Undefined]
    /\ gimbalState = [c \in Conns |-> [pitch |-> 0, roll |-> 0, yaw |-> 0, mode |-> Undefined]]
    /\ events = [c \in Conns |-> <<>>]

InitFramer ==
    /\ receiveBuffer = [c \in Conns |-> <<>>]
    /\ emitted = [c \in Conns |-> <<>>]
    /\ emittedAt = [c \in Conns |-> <<>>]
    /\ stream = [c \in Conns |-> <<>>]
    /\ dropped = [c \in Conns |-> <<>>]

InitPeer ==
    /\ sending = [c \in Conns |-> <<>>]
    /\ wire = [c \in Conns |-> <<>>]
    /\ bufAtSend = [c \in Conns |-> <<>>]
    /\ emittedAtSend = [c \in Conns |-> 0]
    /\ nChunks = [c \in Conns |-> 0]
    /\ nItems = [c \in Conns |-> 0]

InitCodec ==
    /\ msgSeq = SEQ_DEFAULT
    /\ cPhase = "idle"
    /\ cArgs = NoCall
    /\ cBuilt = NoCall
    /\ cResetVal = SEQ_DEFAULT
    /\ cSeqs = <<>>
    /\ cIds = <<>>
    /\ dIn = NoCall
    /\ dOut = NoCall

InitFlow ==
    /\ pc = [c \in Conns |-> "idle"]
    /\ peripheral = [c \in Conns |-> FALSE]
    /\ fff4 = [c \in Conns |-> FALSE]
    /\ fff5 = [c \in Conns |-> FALSE]
    /\ connected = [c \in Conns |-> FALSE]
    /\ linkUp = [c \in Conns |-> FALSE]
    /\ polls = [c \in Conns |-> 0]
    /\ written = [c \in Conns |-> <<>>]
    /\ built = [c \in Conns |-> <<>>]
    /\ cmds = [c \in Conns |-> 0]
    /\ cmdError = [c \in Conns |-> "none"]
    /\ error = [c \in Conns |-> "none"]
    /\ connects = [c \in Conns |-> 0]
    /\ evAtConnect = [c \in Conns |-> 0]
    /\ pairedAtConnect = [c \in Conns |-> FALSE]
    /\ writtenAtConnect = [c \in Conns |-> 0]
    /\ bufAtConnect = [c \in Conns |-> <<>>]

Init == InitCodec /\ InitConn /\ InitFramer /\ InitPeer /\ InitFlow

NextCodec ==
    \/ \E v \in ResetVals : ResetSequence(v)
    \/ \E a \in CodecArgs : DrawInputs(a)
    \/ CallBuildMessage

SpecCodec == Init /\ [][NextCodec]_vars

NextDecode ==
    \/ \E in \in DecodeInputs : \E h \in AlterModes : \E t \in AlterModes :
           DrawDecode(in, h, t)
    \/ CallDecode

SpecDecode == Init /\ [][NextDecode]_vars

NextFramer ==
    \/ \E item \in Items : PeripheralSend("c1", item)
    \/ \E n \in 1..Len(wire["c1"]) : Notify("c1", n)

SpecFramer == Init /\ [][NextFramer]_vars

\* a transport receiving garbage and frames, each whole or cut in two
NextResync ==
    \/ \E item \in ResyncFeed : PeripheralSend("c1", item)
    \/ \E n \in 1..Len(wire["c1"]) : Notify("c1", n)

SpecResync == Init /\ [][NextResync]_vars

\* a transport receiving SET_PAIRING_PIN frames, whole or cut in two
NextStatus ==
    \/ \E item \in StatusFrames : PeripheralSend("c1", item)
    \/ \E n \in LinkChunks("c1") : Notify("c1", n)

SpecStatus == Init /\ [][NextStatus]_vars

\* a transport receiving frames of every command set, whole or cut in two
NextRouting ==
    \/ \E item \in RoutingFrames : PeripheralSend("c1", item)
    \/ \E n \in LinkChunks("c1") : Notify("c1", n)

SpecRouting == Init /\ [][NextRouting]_vars

\* a transport notified on both characteristics: frames on one, whole or
\* cut in two at any point, and whole frames on the other at any moment
NextChannels ==
    \/ \E item \in DeviceFrames : PeripheralSend("c1", item)
    \/ \E n \in 1..Len(wire["c1"]) : Notify("c1", n)
    \/ \E item \in DeviceFrames : NotifyOther("c1", item)

SpecChannels == Init /\ [][NextChannels]_vars

\* one OsmoConnection with its peripheral
Next == ConnectionStep("c1") \/ LinkStep("c1")

Spec == Init /\ [][Next]_vars

\* the same connection with its timers firing: a pending 500 ms timer of the
\* wait loop eventually fires
SpecTimers == Spec /\ WF_vars(Poll("c1"))

\* one OsmoConnection that is connected, disconnected and connected again,
\* with a peripheral that is found and accepts the writes every time
ReconnectStep(c) ==
    \/ ConnectCall(c)
    \/ Reconnect(c)
    \/ Discover(c, "ok")
    \/ ReadyDelay(c)
    \/ TriggerDone(c, TRUE)
    \/ SettleDelay(c)
    \/ CredsDone(c, TRUE)
    \/ Poll(c)
    \/ Disconnect(c)
    \/ PeripheralDisconnect(c)

NextReconnect == ReconnectStep("c1") \/ LinkStep("c1")

SpecReconnect == Init /\ [][NextReconnect]_vars

\* two OsmoConnections in one process (one module-level counter), each
\* connecting, sending its credentials and issuing gimbal commands
ProcessStep(c) ==
    \/ ConnectCall(c)
    \/ Discover(c, "ok")
    \/ ReadyDelay(c)
    \/ TriggerDone(c, TRUE)
    \/ SettleDelay(c)
    \/ CredsDone(c, TRUE)
    \/ \E sp \in Speeds : GimbalSetSpeed(c, sp)

NextProcess == \E c \in Conns : ProcessStep(c)

SpecProcess == Init /\ [][NextProcess]_vars

----------------------------------------------------------------------------
(* Claims about the codec and the sequence counter (SpecCodec)             *)

\* a buildMessage call has returned or thrown and no other call is pending
CallDone == cPhase = "idle" /\ cBuilt # NoCall
SeqBeforeLast == cSeqs[Len(cSeqs)]

\* C1: round trip. For inputs with a payload of 0..1011 bytes and a counter
\* within 16 bits, parseMessage(buildMessage(...)) returns a frame whose
\* sender, receiver, flags, cmdSet, cmdId, payload and length equal the
\* encoded ones and whose msgId is the counter value before the call.
C1_RoundTrip ==
    (CallDone /\ UInt16InRange(SeqBeforeLast)) =>
        /\ ~cBuilt.threw
        /\ LET m == parseMessage(cBuilt.buf) IN
           /\ m # NoMsg
           /\ m.sender = cArgs.target % 256
           /\ m.receiver = cArgs.target \div 256
           /\ m.flags = cArgs.flags
           /\ m.cmdSet = cArgs.cmdSet
           /\ m.cmdId = cArgs.cmdId
           /\ m.payload = PayloadBytes(cArgs.payload)
           /\ m.length = HEADER_AND_CRC + PayloadLen(cArgs.payload)
           /\ m.msgId = SeqBeforeLast

\* C2: the 10-bit length field of every returned buffer equals the buffer's
\* byte count and lies within 13..1024, the 1011-byte payload included.
C2_LengthFieldIsByteCount ==
    (CallDone /\ ~cBuilt.threw) =>
        /\ LengthField(cBuilt.buf) = Len(cBuilt.buf)
        /\ LengthField(cBuilt.buf) >= HEADER_AND_CRC
        /\ LengthField(cBuilt.buf) <= MAX_FRAME

\* C3: the counter wraps modulo 65536: the call made with the counter at
\* 0xFFFF carries 0xFFFF, and the call after it succeeds and carries 0.
C3_WrapsAt65536 ==
    \A i \in 1..Len(cSeqs) :
        /\ cSeqs[i] = UINT16_MAX => cIds[i] = UINT16_MAX
        /\ (i > 1 /\ cSeqs[i - 1] = UINT16_MAX) => cIds[i] = 0

\* C4: return-then-increment. The k-th call after resetSequence(v) carries
\* the sequence id v + k (a 16-bit id, so modulo 65536).
C4_ReturnThenIncrement ==
    \A i \in 1..Len(cIds) : cIds[i] = (cResetVal + (i - 1)) % (UINT16_MAX + 1)

\* C18: zero-payload frame. buildMessage with an empty or absent payload
\* returns exactly 13 bytes whose byte 0 is 0x55, and parseMessage of that
\* buffer returns a frame with length 13 and an empty payload.
C18_ZeroPayload ==
    (CallDone /\ PayloadLen(cArgs.payload) = 0) =>
        /\ ~cBuilt.threw
        /\ Len(cBuilt.buf) = HEADER_AND_CRC
        /\ At(cBuilt.buf, 0) = MAGIC
        /\ parseMessage(cBuilt.buf) # NoMsg
        /\ parseMessage(cBuilt.buf).length = HEADER_AND_CRC
        /\ parseMessage(cBuilt.buf).payload = <<>>

\* C19: wire layout of every buffer buildMessage returns: byte 0 is 0x55,
\* byte 1 the low 8 bits of the total length, byte 2 the next 2 length bits
\* with version 1 above them, bytes 4 and 5 the sender and receiver (low and
\* high byte of target), bytes 6-7 the sequence id big-endian, bytes 8, 9, 10
\* flags, cmdSet, cmdId, and the payload unchanged from offset 11.
C19_WireLayout ==
    (CallDone /\ ~cBuilt.threw) =>
        LET b == cBuilt.buf
            n == HEADER_AND_CRC + PayloadLen(cArgs.payload)
        IN  /\ Len(b) = n
            /\ At(b, 0) = MAGIC
            /\ At(b, 1) = n % 256
            /\ At(b, 2) = ((n \div 256) % 4) + 4
            /\ At(b, 4) = cArgs.target % 256
            /\ At(b, 5) = cArgs.target \div 256
            /\ At(b, 6) = SeqBeforeLast \div 256
            /\ At(b, 7) = SeqBeforeLast % 256
            /\ At(b, 8) = cArgs.flags
            /\ At(b, 9) = cArgs.cmdSet
            /\ At(b, 10) = cArgs.cmdId
            /\ \A i \in 1..PayloadLen(cArgs.payload) : At(b, 10 + i) = cArgs.payload[i]

\* a frame for the WiFi module carrying sequence id 0xFFFF and a payload
C19_Witness ==
    /\ CallDone /\ ~cBuilt.threw
    /\ SeqBeforeLast = UINT16_MAX
    /\ cArgs.target = TARGET_APP_TO_WIFI
    /\ cArgs.payload = <<85, 13, 4, 51>>

\* C20: checksums of every buffer buildMessage returns: byte 3 is the CRC-8
\* of bytes [0, 3), and the last two bytes hold, low byte first, the CRC-16
\* of all the bytes before them, payload included.
C20_Checksums ==
    (CallDone /\ ~cBuilt.threw) =>
        LET b == cBuilt.buf
            n == Len(b)
        IN  /\ At(b, 3) = computeCrc8(BufSlice(b, 0, 3))
            /\ At(b, n - 2) = computeCrc16(BufSlice(b, 0, n - 2)) % 256
            /\ At(b, n - 1) = computeCrc16(BufSlice(b, 0, n - 2)) \div 256

\* a frame of the maximum size, 1011 payload bytes, was returned
C20_Witness ==
    /\ CallDone /\ ~cBuilt.threw
    /\ cArgs.payload # Null
    /\ Len(cArgs.payload) = MAX_FRAME - HEADER_AND_CRC
    /\ Len(cBuilt.buf) = MAX_FRAME

----------------------------------------------------------------------------
(* Claims about the decoder (SpecDecode)                                   *)

\* the decoder has been called on the drawn buffers
DecodeDone == dIn # NoCall /\ dOut # NoCall

\* the value of the 10-bit length field of d (bytes 1 and 2)
DeclaredLength(d) == d[2] + (d[3] % 4) * 256

\* the bytes of d at offsets [from, to), empty when to <= from
Span(d, from, to) == [i \in 1..(to - from) |-> d[from + i]]

\* parseMessage must reject d: short, no magic, or shorter than it declares
MustReject(d) ==
    \/ Len(d) < HEADER_AND_CRC
    \/ d[1] # MAGIC
    \/ Len(d) < DeclaredLength(d)

\* m is what C21 says parseMessage returns for d
DecodedAsStated(d, m) ==
    /\ (m = NoMsg) <=> MustReject(d)
    /\ m # NoMsg =>
           /\ m.length = DeclaredLength(d)
           /\ m.sender = d[5]
           /\ m.receiver = d[6]
           /\ m.msgId = d[7] * 256 + d[8]
           /\ m.flags = d[9]
           /\ m.cmdSet = d[10]
           /\ m.cmdId = d[11]
           /\ m.payload = Span(d, 11, DeclaredLength(d) - 2)

\* C21: parseMessage returns null exactly when the input has fewer than 13
\* bytes, or its first byte is not 0x55, or it has fewer bytes than its 10-bit
\* length field; otherwise it returns a frame whose fields are read by
\* position: sender at 4, receiver at 5, msgId big-endian at 6, flags 8,
\* cmdSet 9, cmdId 10, payload the bytes [11, length - 2).
C21_ParseMessage ==
    DecodeDone =>
        /\ DecodedAsStated(dIn.data, dOut.msg)
        /\ DecodedAsStated(dIn.alt, dOut.altMsg)

\* the fields of a decoded frame other than its raw bytes
Fields(m) ==
    <<m.length, m.sender, m.receiver, m.msgId, m.flags, m.cmdSet, m.cmdId, m.payload>>

\* both rejected, or both accepted with the same fields
SameOutcome(m1, m2) ==
    /\ (m1 = NoMsg) <=> (m2 = NoMsg)
    /\ m1 # NoMsg => Fields(m1) = Fields(m2)

GimbalStep(c) ==
    \/ ConnectCall(c)
    \/ Discover(c, "ok")
    \/ \E sp \in Speeds : GimbalSetSpeed(c, sp)
    \/ \E mode \in ModeNames : GimbalSetMode(c, mode)
    \/ Disconnect(c)

NextGimbal == \E c \in Conns : GimbalStep(c)

SpecGimbal == Init /\ [][NextGimbal]_vars

----------------------------------------------------------------------------
(* Claims about the connections of one process (SpecProcess)               *)

\* the sequence id the next frame built for connection d will carry: the
\* codec has one counter, whichever connection builds
NextSeqOf(d) == msgSeq

\* C5: the sequence generator is not shared between connections: a step in
\* which a frame is built for one OsmoConnection leaves unchanged the sequence
\* id the next frame of every other OsmoConnection will carry.
C5_GeneratorNotShared ==
    [][\A c \in Conns :
          Len(built'[c]) > Len(built[c]) =>
              \A d \in Conns \ {c} : NextSeqOf(d)' = NextSeqOf(d)]_vars

\* the frames handed to BleTransport.write of connection c, in hand-over order
FrameWrites(c) == SelectSeq(written[c], LAMBDA w : w.char = "fff5")

\* the sequence id a frame carries in bytes 6..7, high byte first
SequenceIdOf(frame) == At(frame, 6) * 256 + At(frame, 7)

\* the sequence ids of the frames handed to the transport, in hand-over order
WrittenIds(c) == [i \in 1..Len(FrameWrites(c)) |-> SequenceIdOf(FrameWrites(c)[i].data)]

\* a frame is built for connection c in this step
Builds(c) == Len(built'[c]) > Len(built[c])

\* C33: write order equals sequence order: under any interleaving of the
\* commands of the connections, the frames handed to a transport's write
\* carry strictly increasing sequence ids, and a frame that is built is handed
\* to write in the same step as it is built, never in a later one.
C33_WriteOrder ==
    /\ [](\A c \in Conns : \A i, j \in 1..Len(FrameWrites(c)) :
              i < j => WrittenIds(c)[i] < WrittenIds(c)[j])
    /\ [][\A c \in Conns :
             /\ Len(FrameWrites(c)') > Len(FrameWrites(c)) =>
                    /\ Builds(c)
                    /\ FrameWrites(c)' = Append(FrameWrites(c), FrameWrites(c)'[Len(FrameWrites(c)')])
                    /\ WrittenIds(c)'[Len(FrameWrites(c)')] = msgSeq
             /\ (Builds(c) /\ fff5[c]) => Len(FrameWrites(c)') = Len(FrameWrites(c)) + 1]_vars

\* both connections have written their credentials and a gimbal command, the
\* frames of one built between the frames of the other, and one connection
\* wrote its command before its credentials
C33_Witness ==
    /\ Len(FrameWrites("c1")) = 2
    /\ Len(FrameWrites("c2")) = 2
    /\ WrittenIds("c1")[1] < WrittenIds("c2")[1]
    /\ WrittenIds("c2")[1] < WrittenIds("c1")[2]
    /\ WrittenIds("c1")[2] < WrittenIds("c2")[2]
    /\ At(FrameWrites("c1")[1].data, 10) = GIMBAL_SPEED_CTRL
    /\ At(FrameWrites("c1")[2].data, 10) = WIFI_SET_PAIRING_PIN

----------------------------------------------------------------------------
(* Claims about the stream framer and the receive path (SpecFramer)        *)

\* a frame whose length field equals its byte count, within 13..1024
IsValidFrame(f) ==
    /\ At(f, 0) = MAGIC
    /\ LengthField(f) = Len(f)
    /\ Len(f) >= HEADER_AND_CRC /\ Len(f) <= MAX_FRAME

\* the frame's payload bytes hold the magic byte
MagicInPayload(f) == \E i \in 11..(Len(f) - 3) : At(f, i) = MAGIC

\* the item was sent to an empty remainder and has arrived completely
ArrivedFromEmpty(c) == sending[c] # <<>> /\ bufAtSend[c] = <<>> /\ wire[c] = <<>>

\* exactly one frame, f, was emitted for the item, and nothing is carried over
EmittedExactly(c, f) ==
    /\ Len(emitted[c]) = emittedAtSend[c] + 1
    /\ emitted[c][Len(emitted[c])].raw = f
    /\ emitted[c][Len(emitted[c])].length = Len(f)
    /\ receiveBuffer[c] = <<>>

\* C6: every frame surfaced by a 'message' event starts with 0x55, has a
\* length field within 13..1024, a raw slice of exactly length bytes and a
\* payload of exactly length - 13 bytes.
C6_SurfacedFramesValid ==
    \A c \in Conns : \A i \in 1..Len(emitted[c]) :
        LET m == emitted[c][i] IN
        /\ At(m.raw, 0) = MAGIC
        /\ m.length >= HEADER_AND_CRC /\ m.length <= MAX_FRAME
        /\ Len(m.raw) = m.length
        /\ Len(m.payload) = m.length - HEADER_AND_CRC

\* a frame was surfaced that was found behind garbage
C6_Witness ==
    /\ Len(emitted["c1"]) >= 2
    /\ emittedAt["c1"][1] > 0
    /\ Len(emitted["c1"][1].payload) > 0

\* C7: resynchronization. From an empty remainder, one chunk holding garbage
\* without 0x55 followed by one valid frame yields exactly that frame and an
\* empty remainder.
C7_Resync ==
    \A c \in Conns : \A g \in NoMagicGarbage : \A f \in DeviceFrames :
        (ArrivedFromEmpty(c) /\ nChunks[c] = 1 /\ sending[c] = g \o f /\ IsValidFrame(f))
            => EmittedExactly(c, f)

C7_Witness ==
    /\ ArrivedFromEmpty("c1") /\ nChunks["c1"] = 1
    /\ sending["c1"] = GarbageNoMagic \o FrameTelemetry
    /\ Len(emitted["c1"]) = 1

\* C8: partial delivery. From an empty remainder, the first k bytes of a valid
\* frame (0 < k < L) yield no frame and a remainder of those k bytes; the
\* remaining L - k bytes then yield exactly that frame and an empty remainder.
C8_PartialDelivery ==
    \A c \in Conns : \A f \in DeviceFrames :
        (sending[c] = f /\ bufAtSend[c] = <<>> /\ IsValidFrame(f)) =>
            /\ (nChunks[c] = 1 /\ wire[c] # <<>>) =>
                   /\ Len(emitted[c]) = emittedAtSend[c]
                   /\ receiveBuffer[c] = SubSeq(f, 1, Len(f) - Len(wire[c]))
            /\ (nChunks[c] = 2 /\ wire[c] = <<>>) => EmittedExactly(c, f)

C8_Witness ==
    /\ sending["c1"] = FrameTelemetry /\ bufAtSend["c1"] = <<>>
    /\ nChunks["c1"] = 2 /\ wire["c1"] = <<>>
    /\ Len(emitted["c1"]) = emittedAtSend["c1"] + 1

\* C9: spurious magic inside the payload. A valid frame whose payload holds
\* 0x55, arriving at an aligned framer, is emitted as exactly one frame of its
\* declared length; it is not split.
C9_MagicInPayload ==
    \A c \in Conns : \A f \in DeviceFrames :
        (ArrivedFromEmpty(c) /\ sending[c] = f /\ IsValidFrame(f) /\ MagicInPayload(f))
            => EmittedExactly(c, f)

C9_Witness ==
    /\ ArrivedFromEmpty("c1") /\ sending["c1"] = FrameBattery
    /\ MagicInPayload(FrameBattery)
    /\ emitted["c1"][Len(emitted["c1"])].payload = <<85, 13, 4>>

\* C10: frames are emitted in arrival order: the i-th 'message' event carries
\* the bytes found at the i-th emitted offset of the incoming stream, and the
\* offsets strictly increase.
C10_ArrivalOrder ==
    \A c \in Conns :
        /\ Len(emittedAt[c]) = Len(emitted[c])
        /\ \A i \in 1..Len(emitted[c]) :
               /\ emitted[c][i].raw =
                      SubSeq(stream[c], emittedAt[c][i] + 1,
                             emittedAt[c][i] + Len(emitted[c][i].raw))
               /\ i > 1 => emittedAt[c][i - 1] < emittedAt[c][i]

\* two frames arrived in one chunk and both were emitted
C10_Witness ==
    /\ sending["c1"] \in MergedItems /\ wire["c1"] = <<>> /\ nChunks["c1"] = 1
    /\ Len(emitted["c1"]) >= emittedAtSend["c1"] + 2
    /\ emitted["c1"][Len(emitted["c1"])].msgId # emitted["c1"][Len(emitted["c1"]) - 1].msgId

\* stream offset k lies in the run of len bytes starting at offset at
InRun(k, at, len) == k >= at /\ k < at + len

\* how many emitted frames and discarded runs hold the stream byte at offset k
Holders(c, k) ==
    Cardinality({i \in 1..Len(emitted[c]) :
                    InRun(k, emittedAt[c][i], Len(emitted[c][i].raw))})
    + Cardinality({j \in 1..Len(dropped[c]) :
                      InRun(k, dropped[c][j].at, dropped[c][j].len)})

\* the carried remainder is the tail of the stream, and every byte before it
\* is held by exactly one emitted frame or discarded run
Accounted(c) ==
    LET n == Len(stream[c])
        rem == Len(receiveBuffer[c])
    IN  /\ rem <= n
        /\ receiveBuffer[c] = SubSeq(stream[c], n - rem + 1, n)
        /\ \A k \in 0..(n - rem - 1) : Holders(c, k) = 1
        /\ \A k \in (n - rem)..(n - 1) : Holders(c, k) = 0
        /\ \A i \in 1..Len(emitted[c]) :
               emitted[c][i].raw = SubSeq(stream[c], emittedAt[c][i] + 1,
                                          emittedAt[c][i] + Len(emitted[c][i].raw))

\* C11 as stated: no input byte is duplicated, and none is dropped except one
\* byte at a time behind a header whose length field is out of range; every
\* other byte is in exactly one emitted frame or in the remainder.
C11_OnlyBadLengthDrops ==
    \A c \in Conns :
        /\ Accounted(c)
        /\ \A j \in 1..Len(dropped[c]) :
               dropped[c][j].rule = "badLength" /\ dropped[c][j].len = 1

\* C11 amended: no input byte is duplicated; every input byte is in exactly
\* one emitted frame, in the carried remainder, or in a run the framer
\* discarded because the buffer held no magic byte, because the run preceded
\* the first magic byte, or (one byte) because the length field behind a magic
\* byte was out of range.
C11_ByteConservation ==
    \A c \in Conns :
        /\ Accounted(c)
        /\ \A j \in 1..Len(dropped[c]) :
               /\ dropped[c][j].rule \in {"noMagic", "beforeMagic", "badLength"}
               /\ dropped[c][j].rule = "badLength" => dropped[c][j].len = 1

\* a spurious magic byte and the bytes behind it were discarded and the frame
\* that followed was emitted
C11_Witness ==
    /\ \E j \in 1..Len(dropped["c1"]) : dropped["c1"][j].rule = "badLength"
    /\ \E j \in 1..Len(dropped["c1"]) : dropped["c1"][j].rule = "beforeMagic"
    /\ Len(emitted["c1"]) >= 1
    /\ receiveBuffer["c1"] = <<>>

\* the length field read behind stream offset k of connection c
LengthFieldAt(c, k) == LengthField(BufSliceFrom(stream[c], k))

\* the stream of c is a stray magic byte with an out-of-range length field,
\* directly followed by the valid frame f, all of it delivered
StrayMagicThen(c, f) ==
    /\ stream[c] = GarbageStrayMagic \o f
    /\ wire[c] = <<>>
    /\ IsValidFrame(f)

\* C26: framer rule (d). When the head of the remainder is 0x55 and the
\* length field read from the next two bytes is below 13 or above 1024, the
\* framer discards exactly that one byte and emits no frame for it, and it
\* rescans the rest from the magic search: a valid frame that follows the
\* spurious header is still found.
C26_RuleD ==
    \A c \in Conns :
        /\ \A j \in 1..Len(dropped[c]) :
               dropped[c][j].rule = "badLength" =>
                   /\ dropped[c][j].len = 1
                   /\ At(stream[c], dropped[c][j].at) = MAGIC
                   /\ \/ LengthFieldAt(c, dropped[c][j].at) < HEADER_AND_CRC
                      \/ LengthFieldAt(c, dropped[c][j].at) > MAX_FRAME
                   /\ Holders(c, dropped[c][j].at) = 1
        /\ \A f \in DeviceFrames :
               StrayMagicThen(c, f) =>
                   /\ dropped[c] = <<Dropped(0, 1, "badLength"),
                                     Dropped(1, 2, "beforeMagic")>>
                   /\ Len(emitted[c]) = 1
                   /\ emitted[c][1].raw = f
                   /\ emittedAt[c] = <<Len(GarbageStrayMagic)>>
                   /\ receiveBuffer[c] = <<>>

\* the telemetry frame was found behind a stray magic byte
C26_Witness ==
    /\ StrayMagicThen("c1", FrameTelemetry)
    /\ Len(emitted["c1"]) = 1
    /\ dropped["c1"][1] = Dropped(0, 1, "badLength")

\* C32: chunking invariance. However the byte stream was cut into the
\* chunks fed so far (from an empty remainder), the frames emitted are, in
\* order and field by field, those a single parseStream call on the whole
\* stream returns, found at the same offsets.
C32_ChunkingInvariance ==
    \A c \in Conns :
        /\ emitted[c] = parseStream(stream[c]).messages
        /\ emittedAt[c] = parseStream(stream[c]).offsets

\* garbage, then two frames in one item cut in two: three chunks, two frames
C32_Witness ==
    /\ nItems["c1"] = 2 /\ nChunks["c1"] = 2 /\ wire["c1"] = <<>>
    /\ bufAtSend["c1"] # <<>>
    /\ Len(emitted["c1"]) = 2
    /\ sending["c1"] \in MergedItems

----------------------------------------------------------------------------
(* Claims about resynchronization after garbage (SpecResync)               *)

\* garbage g was fed to an empty framer, then the valid frame f, in full
FedAfterGarbage(c, g, f) ==
    /\ stream[c] = g \o f
    /\ wire[c] = <<>>
    /\ IsValidFrame(f)

\* the frame f has been surfaced by a 'message' event
Surfaced(c, f) == \E i \in 1..Len(emitted[c]) : emitted[c][i].raw = f

\* C27: the framer resynchronizes after corrupted data: whatever garbage
\* (garbage containing 0x55 included) was fed before it, a valid frame fed
\* in full has been emitted once all its bytes have arrived.
C27_ResyncAfterGarbage ==
    \A c \in Conns : \A g \in NoMagicGarbage \cup MagicGarbage : \A f \in DeviceFrames :
        FedAfterGarbage(c, g, f) => Surfaced(c, f)

\* C31: remainder invariant. After every _processIncoming the carried
\* remainder is shorter than 1024 bytes, and it is either shorter than 13
\* bytes or starts with 0x55 followed by a length field within 13..1024 that
\* is larger than the remainder's length.
C31_RemainderInvariant ==
    \A c \in Conns :
        LET r == receiveBuffer[c] IN
        /\ Len(r) < MAX_FRAME
        /\ \/ Len(r) < HEADER_AND_CRC
           \/ /\ r[1] = MAGIC
              /\ r[2] + (r[3] % 4) * 256 >= HEADER_AND_CRC
              /\ r[2] + (r[3] % 4) * 256 <= MAX_FRAME
              /\ r[2] + (r[3] % 4) * 256 > Len(r)

\* a header announcing 200 bytes and a whole frame behind it are carried
C31_Witness ==
    /\ stream["c1"] = GarbageFakeHeader \o FrameTelemetry
    /\ wire["c1"] = <<>>
    /\ receiveBuffer["c1"] = stream["c1"]
    /\ Len(receiveBuffer["c1"]) >= HEADER_AND_CRC

----------------------------------------------------------------------------
(* Claims about the two notify characteristics (SpecChannels)              *)

\* the frame f arrived in two fragments on one characteristic, cut after k
\* bytes, and the chunk x of the other characteristic arrived between them
InterleavedAt(c, f, x, k) ==
    /\ sending[c] = f
    /\ nChunks[c] = 2
    /\ wire[c] = <<>>
    /\ stream[c] = SubSeq(f, 1, k) \o x \o SubSeq(f, k + 1, Len(f))

\* the same, cut anywhere
Interleaved(c, f, x) == \E k \in 1..(Len(f) - 1) : InterleavedAt(c, f, x, k)

\* C34: two notify channels, one accumulator: when a valid frame is delivered
\* in fragments on one characteristic and a chunk from the other
\* characteristic arrives between its fragments, the fragmented frame is
\* reassembled and emitted intact and the frame of the interleaved chunk is
\* emitted as well.
C34_TwoChannels ==
    \A c \in Conns : \A f \in DeviceFrames : \A x \in DeviceFrames :
        Interleaved(c, f, x) => Surfaced(c, f) /\ Surfaced(c, x)

----------------------------------------------------------------------------
(* Claims about connect() and the pairing handshake (Spec)                 *)

\* the events the connection has emitted since its last connect() call
EventsSinceConnect(c) == SubSeq(events[c], evAtConnect[c] + 1, Len(events[c]))

\* how many of them carry the given name
CountSinceConnect(c, name) ==
    Cardinality({i \in 1..Len(EventsSinceConnect(c)) : EventsSinceConnect(c)[i].name = name})

\* C12: handshake timeout. While no qualifying response has been received
\* (_paired is false), the wait loop is left only after exactly 30 polls; then
\* 'pairingTimeout' has been emitted exactly once, _pair returns _paired
\* (false) and connect() has resolved without an error. Before the 30th poll
\* no 'pairingTimeout' is emitted.
C12_HandshakeTimeout ==
    \A c \in Conns :
        /\ (pc[c] = "done" /\ ~paired[c]) =>
               /\ polls[c] = POLL_LIMIT
               /\ CountSinceConnect(c, "pairingTimeout") = 1
               /\ CountSinceConnect(c, "pairing") = 1
               /\ error[c] = "none"
        /\ (pc[c] = "polling" /\ ~paired[c]) =>
               /\ polls[c] < POLL_LIMIT
               /\ CountSinceConnect(c, "pairingTimeout") = 0

\* the device answered 'pairing required' but never approved, and the wait
\* ran out
C12_Witness ==
    /\ pc["c1"] = "done" /\ ~paired["c1"] /\ polls["c1"] = POLL_LIMIT
    /\ CountSinceConnect("c1", "pairingRequired") = 1
    /\ events["c1"][Len(events["c1"])].name = "pairingTimeout"

\* the events connection c emits in this step
NewEvents(c) == SubSeq(events'[c], Len(events[c]) + 1, Len(events'[c]))

\* this step makes the session Paired: a 'paired' event is emitted
BecomesPaired(c) == \E i \in 1..Len(NewEvents(c)) : NewEvents(c)[i].name = "paired"

\* this step makes it Paired through an 'approved' frame (alreadyPaired false)
BecomesPairedByApproval(c) ==
    \E i \in 1..Len(NewEvents(c)) :
        NewEvents(c)[i].name = "paired" /\ NewEvents(c)[i].arg = 0

\* the credentials frame of this connect() has been handed to the transport
CredentialsSent(c) == pc[c] \in {"creds", "polling", "done"}

\* AwaitingApproval: credentials sent, 'pairing required' answered, the wait
\* not over
AwaitingApproval(c) ==
    /\ pc[c] \in {"creds", "polling"}
    /\ CountSinceConnect(c, "pairingRequired") >= 1

\* C13: the pairing session follows Idle, TriggerSent, CredentialsSent,
\* AwaitingApproval, then Paired or TimedOut: it never becomes Paired before
\* the credentials frame has been sent, and an 'approved' frame makes it
\* Paired only from AwaitingApproval.
C13_StateOrder ==
    [][\A c \in Conns :
          /\ BecomesPaired(c) => CredentialsSent(c)
          /\ BecomesPairedByApproval(c) => AwaitingApproval(c)]_vars

\* the writes handed to the transport since the last connect() call
WritesSinceConnect(c) == SubSeq(written[c], writtenAtConnect[c] + 1, Len(written[c]))

\* a credentials frame (WiFi SET_PAIRING_PIN request) among those writes
CredentialsWritten(c) ==
    \E i \in 1..Len(WritesSinceConnect(c)) :
        /\ WritesSinceConnect(c)[i].char = "fff5"
        /\ At(WritesSinceConnect(c)[i].data, 9) = CMD_SET_WIFI
        /\ At(WritesSinceConnect(c)[i].data, 10) = WIFI_SET_PAIRING_PIN

\* C15: a failed write aborts the handshake at once. When the trigger or the
\* credentials write has failed, connect() has rejected with that error, no
\* poll has been made and neither 'pairing' nor 'pairingTimeout' has been
\* emitted; when the trigger write has failed, no credentials frame has been
\* written, and the failing step builds no frame and leaves the sequence
\* counter unchanged.
C15_WriteFailureAborts ==
    /\ [](\A c \in Conns :
             /\ error[c] \in {"triggerWrite", "credsWrite"} =>
                    /\ pc[c] = "failed"
                    /\ polls[c] = 0
                    /\ CountSinceConnect(c, "pairing") = 0
                    /\ CountSinceConnect(c, "pairingTimeout") = 0
             /\ error[c] = "triggerWrite" => ~CredentialsWritten(c)
             /\ error[c] = "credsWrite" => CredentialsWritten(c))
    /\ [][\A c \in Conns :
             (error'[c] = "triggerWrite" /\ error[c] # "triggerWrite") =>
                 /\ msgSeq' = msgSeq
                 /\ built' = built
                 /\ written' = written]_vars

\* the trigger write failed after the device had already sent a frame and a
\* gimbal command had been issued
C15_Witness ==
    /\ error["c1"] = "triggerWrite" /\ pc["c1"] = "failed"
    /\ WritesSinceConnect("c1")[1] = [char |-> "fff4", data |-> <<1, 0>>]
    /\ Len(emitted["c1"]) >= 1
    /\ cmds["c1"] = 1

\* the names of the events of the pairing handshake
PairingEvents == {"pairing", "paired", "pairingRequired", "pairingTimeout"}

\* C22: when the device is not discovered before the scan timer fires,
\* connect() has rejected with the 'not found' error and the handshake has
\* not started: nothing has been written (no trigger, no credentials frame),
\* every frame built and every sequence id consumed belongs to a gimbal
\* command, no poll has been made and no pairing event has been emitted.
C22_NotFoundRejects ==
    \A c \in Conns :
        error[c] = "notFound" =>
            /\ pc[c] = "failed"
            /\ WritesSinceConnect(c) = <<>>
            /\ ~CredentialsWritten(c)
            /\ Len(built[c]) = cmds[c]
            /\ msgSeq = SEQ_DEFAULT + cmds[c]
            /\ polls[c] = 0
            /\ \A name \in PairingEvents : CountSinceConnect(c, name) = 0

\* the scan timed out, and a gimbal command issued afterwards went nowhere
C22_Witness ==
    /\ error["c1"] = "notFound" /\ pc["c1"] = "failed"
    /\ cmds["c1"] = 1 /\ Len(built["c1"]) = 1
    /\ written["c1"] = <<>>

\* C23: a handshake ends in exactly one of Paired and TimedOut: once
\* 'pairingTimeout' has been emitted for a connection, no 'paired' event is
\* emitted and _paired does not become true, and 'paired' is emitted at most
\* once per handshake.
C23_OneTerminalOutcome ==
    /\ [](\A c \in Conns : CountSinceConnect(c, "paired") <= 1)
    /\ [][\A c \in Conns :
             CountSinceConnect(c, "pairingTimeout") >= 1 =>
                 /\ ~BecomesPaired(c)
                 /\ paired'[c] = paired[c]]_vars

\* the handshake writes since connect(): everything but gimbal commands
HandshakeWrites(c) ==
    SelectSeq(WritesSinceConnect(c),
              LAMBDA w : w.char = "fff4" \/ At(w.data, 9) # CMD_SET_GIMBAL)

\* the 2-byte pairing trigger on the secondary channel
TriggerWrite == [char |-> "fff4", data |-> <<1, 0>>]

\* w is a write of the credentials frame on the command channel
IsCredentialsWrite(w) ==
    /\ w.char = "fff5"
    /\ parseMessage(w.data) # NoMsg
    /\ LET m == parseMessage(w.data) IN
       /\ m.sender = ADDR_APP /\ m.receiver = ADDR_WIFI
       /\ m.flags = FLAG_REQUEST
       /\ m.cmdSet = CMD_SET_WIFI /\ m.cmdId = WIFI_SET_PAIRING_PIN
       /\ m.payload = <<Len(IDENTIFIER)>> \o IDENTIFIER \o <<Len(PIN)>> \o PIN
       /\ m.length = Len(w.data)

\* this step builds a frame that is not a gimbal command
BuildsCredentials(c) == Len(built'[c]) > Len(built[c]) /\ cmds'[c] = cmds[c]

\* C24: step order of _pair. The trigger [0x01, 0x00] is written to fff4 and
\* its write completes before the credentials frame is built and written to
\* fff5; that frame is a REQUEST from App to WiFi, cmdSet WIFI, cmdId
\* SET_PAIRING_PIN, carrying the length-prefixed identifier and then the
\* length-prefixed PIN; 'pairing' is emitted and polling starts only after
\* the credentials write has completed.
C24_StepOrder ==
    /\ [](\A c \in Conns :
             LET w == HandshakeWrites(c) IN
             /\ Len(w) <= 2
             /\ Len(w) >= 1 => w[1] = TriggerWrite
             /\ Len(w) = 2 => IsCredentialsWrite(w[2])
             /\ pc[c] \in {"scanning", "ready"} => Len(w) = 0
             /\ pc[c] \in {"trigger", "settle"} => Len(w) = 1
             /\ pc[c] \in {"creds", "polling", "done"} => Len(w) = 2
             /\ (CountSinceConnect(c, "pairing") >= 1 \/ polls[c] > 0) =>
                    /\ pc[c] \in {"polling", "done"}
                    /\ Len(w) = 2
                    /\ CountSinceConnect(c, "pairing") = 1)
    /\ [][\A c \in Conns :
             /\ BuildsCredentials(c) =>
                    /\ pc[c] = "settle"
                    /\ HandshakeWrites(c) = <<TriggerWrite>>
             /\ (Len(NewEvents(c)) > 0 /\ NewEvents(c)[1].name = "pairing") =>
                    /\ pc[c] = "creds"
                    /\ polls[c] = 0]_vars

\* the wait is running: trigger, then credentials, then 'pairing', with a
\* gimbal command written in between
C24_Witness ==
    /\ pc["c1"] = "polling" /\ polls["c1"] >= 1
    /\ Len(HandshakeWrites("c1")) = 2
    /\ Len(WritesSinceConnect("c1")) = 3
    /\ CountSinceConnect("c1", "pairing") = 1

----------------------------------------------------------------------------
(* Claims about the wait loop under its timers (SpecTimers)                *)

\* this step takes the link of c down or clears _connected
Disconnects(c) == (linkUp[c] /\ ~linkUp'[c]) \/ (connected[c] /\ ~connected'[c])

\* position in events[c] of the last event with the given name (0 if none)
LastIndexOfEvent(c, name) ==
    LET at == {i \in 1..Len(events[c]) : events[c][i].name = name}
    IN  IF at = {} THEN 0 ELSE CHOOSE i \in at : \A j \in at : j <= i

\* the wait loop of c is running with the link down and no approval received
WaitingDisconnected(c) == pc[c] = "polling" /\ ~linkUp[c] /\ ~paired[c]

\* the wait loop of c has run out: 30 polls, then 'pairingTimeout'
TimedOut(c) ==
    /\ pc[c] = "done" /\ ~paired[c]
    /\ polls[c] = POLL_LIMIT
    /\ events[c][Len(events[c])].name = "pairingTimeout"

\* C29: an in-flight handshake cannot be cancelled. A disconnect() call or a
\* disconnect of the peripheral while _pair is polling leaves the loop and
\* its counter as they are; the loop ends only with paired observed or after
\* 30 polls; and when no approval has arrived, 'pairingTimeout' is still
\* emitted after the disconnect.
C29_NoCancellation ==
    /\ [][\A c \in Conns :
             (Disconnects(c) /\ pc[c] = "polling") =>
                 /\ pc'[c] = "polling"
                 /\ polls'[c] = polls[c]
                 /\ paired'[c] = paired[c]]_vars
    /\ [][\A c \in Conns :
             (pc[c] = "polling" /\ pc'[c] # "polling") =>
                 /\ pc'[c] = "done"
                 /\ paired[c] \/ polls'[c] = POLL_LIMIT]_vars
    /\ (WaitingDisconnected("c1") ~> TimedOut("c1"))

\* the link went down during the wait and the timeout was emitted afterwards
C29_Witness ==
    /\ TimedOut("c1")
    /\ ~linkUp["c1"]
    /\ LastIndexOfEvent("c1", "pairing") > 0
    /\ LastIndexOfEvent("c1", "pairing") < LastIndexOfEvent("c1", "disconnected")
    /\ LastIndexOfEvent("c1", "disconnected") < LastIndexOfEvent("c1", "pairingTimeout")

\* a 500 ms timer of the wait loop of c fires in this step
PollFires(c) == pc[c] = "polling" /\ polls'[c] # polls[c]

\* the credentials write of c completes successfully in this step
CredentialsAcked(c) == pc[c] = "creds" /\ pc'[c] \in {"polling", "done"}

\* _pair has returned true without the advisory event
ReturnedPaired(c) ==
    /\ pc[c] = "done" /\ paired[c]
    /\ CountSinceConnect(c, "pairingTimeout") = 0

\* C30: bounded response of the wait loop. When a qualifying response has
\* set paired during the wait, the next timer to fire ends the loop (one
\* further poll at most), _pair returns true and 'pairingTimeout' is not
\* emitted; when paired is already true as the credentials write completes,
\* no poll is made; and the loop never makes more than 30 polls and always
\* terminates.
C30_BoundedResponse ==
    /\ [](\A c \in Conns : polls[c] <= POLL_LIMIT)
    /\ [][\A c \in Conns :
             /\ (PollFires(c) /\ paired[c]) =>
                    /\ polls'[c] = polls[c] + 1
                    /\ ReturnedPaired(c)'
                    /\ NewEvents(c) = <<>>
             /\ (CredentialsAcked(c) /\ paired[c]) =>
                    /\ polls'[c] = 0
                    /\ ReturnedPaired(c)'
                    /\ NewEvents(c) = <<Event("pairing", 0)>>
             /\ (CredentialsAcked(c) /\ ~paired[c]) => pc'[c] = "polling"]_vars
    /\ (pc["c1"] = "polling" ~> pc["c1"] = "done")
    /\ ((pc["c1"] = "polling" /\ paired["c1"]) ~> ReturnedPaired("c1"))

\* the approval arrived during the wait and the loop ended at the next poll
C30_Witness ==
    /\ ReturnedPaired("c1")
    /\ polls["c1"] > 1 /\ polls["c1"] < POLL_LIMIT
    /\ LastIndexOfEvent("c1", "pairing") > 0
    /\ LastIndexOfEvent("c1", "pairing") < LastIndexOfEvent("c1", "paired")

----------------------------------------------------------------------------
(* Claims about message routing (SpecStatus)                               *)

\* the frames surfaced by 'message' events in this step
NewMessages(c) == SubSeq(emitted'[c], Len(emitted[c]) + 1, Len(emitted'[c]))

\* the second payload byte if there are two, else the first, else none
StatusByte(payload) ==
    IF Len(payload) >= 2 THEN payload[2]
    ELSE IF Len(payload) = 1 THEN payload[1] ELSE Undefined

\* C14: a WiFi SET_PAIRING_PIN frame with the response bit set and status
\* 0x01 sets paired and emits 'paired' (already paired); with status 0x02 it
\* emits 'pairingRequired' and leaves paired unchanged; with any other
\* status, an empty payload or a cleared response bit it changes nothing and
\* emits nothing. The status is the second payload byte if present, else the
\* first.
C14_StatusByte ==
    [][\A c \in Conns :
          (/\ Len(NewMessages(c)) = 1
           /\ NewMessages(c)[1].cmdSet = CMD_SET_WIFI
           /\ NewMessages(c)[1].cmdId = WIFI_SET_PAIRING_PIN) =>
              LET m == NewMessages(c)[1]
                  response == m.flags >= 128
                  status == StatusByte(m.payload)
              IN  /\ (response /\ status = 1) =>
                         /\ paired'[c]
                         /\ NewEvents(c) = <<Event("paired", 1)>>
                  /\ (response /\ status = 2) =>
                         /\ paired'[c] = paired[c]
                         /\ NewEvents(c) = <<Event("pairingRequired", 0)>>
                  /\ (~response \/ status \notin {1, 2}) =>
                         /\ paired'[c] = paired[c]
                         /\ NewEvents(c) = <<>>]_vars

\* a response whose first byte is 0x01 and second 0x00 changed nothing, then
\* a response with status 0x01 in the second byte paired the connection
C14_Witness ==
    /\ Len(emitted["c1"]) = 2
    /\ emitted["c1"][1].payload = <<1, 0>>
    /\ emitted["c1"][2].payload = <<0, 1>>
    /\ events["c1"] = <<Event("paired", 1)>>
    /\ paired["c1"]

\* the names of the events connection c emits in this step
NewEventNames(c) == {NewEvents(c)[i].name : i \in 1..Len(NewEvents(c))}

\* C28: routing by command set. Every decoded frame goes to exactly one
\* destination: a GIMBAL frame only to the gimbal controller, a WIFI frame
\* only to the pairing logic (never 'rawMessage', even when it matches no
\* case), a BATTERY frame with a payload sets battery to payload[0] and
\* emits 'battery', and every other frame (BATTERY without payload
\* included) emits 'rawMessage' exactly once.
C28_Routing ==
    [][\A c \in Conns :
          Len(NewMessages(c)) = 1 =>
              LET m == NewMessages(c)[1] IN
              /\ m.cmdSet = CMD_SET_GIMBAL =>
                     /\ NewEventNames(c) \subseteq {"gimbalState"}
                     /\ Len(NewEvents(c)) <= 1
                     /\ paired'[c] = paired[c] /\ battery'[c] = battery[c]
              /\ m.cmdSet = CMD_SET_WIFI =>
                     /\ NewEventNames(c) \subseteq {"paired", "pairingRequired"}
                     /\ Len(NewEvents(c)) <= 1
                     /\ battery'[c] = battery[c] /\ gimbalState'[c] = gimbalState[c]
              /\ (m.cmdSet = CMD_SET_BATTERY /\ Len(m.payload) >= 1) =>
                     /\ NewEvents(c) = <<Event("battery", m.payload[1])>>
                     /\ battery'[c] = m.payload[1]
                     /\ paired'[c] = paired[c] /\ gimbalState'[c] = gimbalState[c]
              /\ (\/ m.cmdSet \notin {CMD_SET_GIMBAL, CMD_SET_WIFI, CMD_SET_BATTERY}
                  \/ m.cmdSet = CMD_SET_BATTERY /\ Len(m.payload) = 0) =>
                     /\ NewEvents(c) = <<Event("rawMessage", m.msgId)>>
                     /\ paired'[c] = paired[c] /\ battery'[c] = battery[c]
                     /\ gimbalState'[c] = gimbalState[c]]_vars

\* a WiFi frame of another command raised nothing, then a battery frame
\* without payload was surfaced as 'rawMessage'
C28_Witness ==
    /\ Len(emitted["c1"]) = 2
    /\ emitted["c1"][1].cmdSet = CMD_SET_WIFI /\ emitted["c1"][1].cmdId = 1
    /\ emitted["c1"][2].cmdSet = CMD_SET_BATTERY /\ emitted["c1"][2].payload = <<>>
    /\ events["c1"] = <<Event("rawMessage", 37)>>
    /\ battery["c1"] = Undefined

----------------------------------------------------------------------------
(* Claims about writes of a transport that is not connected (Spec)         *)

\* a step of _pair that calls writeFff4 or write: the end of the 1000 ms wait
\* and the end of the 200 ms settle delay
HandshakeWriteStep(c) == pc[c] \in {"ready", "settle"} /\ pc'[c] # pc[c]

\* C35: BleTransport.write and writeFff4 fail with 'Not connected' whenever
\* the transport is not connected: in a step taken while isConnected is false
\* (before connect, after disconnect() or after the peripheral's 'disconnect'
\* event) nothing is handed to a characteristic, and a handshake write is
\* rejected with 'Not connected'.
C35_NotConnectedRejects ==
    [][\A c \in Conns :
          ~connected[c] =>
              /\ written'[c] = written[c]
              /\ HandshakeWriteStep(c) =>
                     pc'[c] = "failed" /\ error'[c] = "notConnected"]_vars

----------------------------------------------------------------------------
(* Claims about the gimbal controller (SpecGimbal)                         *)

\* the three mode names setMode knows
KnownModeNames == {"lock", "follow", "fpv"}

\* the step passes exactly one frame to _send: a SET_MODE request to the
\* gimbal whose payload is the two bytes [value, 0], carrying the counter
\* value; the transport hands it to fff5, or rejects it if fff5 is not set
SendsModeFrame(c, value) ==
    LET f == buildMessage(TARGET_APP_TO_GIMBAL, FLAG_REQUEST, CMD_SET_GIMBAL,
                          GIMBAL_SET_MODE, <<value, 0>>, msgSeq).buf
    IN  /\ parseMessage(f).payload = <<value, 0>>
        /\ parseMessage(f).cmdId = GIMBAL_SET_MODE
        /\ built'[c] = Append(built[c], msgSeq)
        /\ IF fff5[c]
           THEN written'[c] = Append(written[c], [char |-> "fff5", data |-> f])
           ELSE written'[c] = written[c] /\ cmdError'[c] = "notConnected"

\* C36: setMode with an unknown mode name throws 'Unknown gimbal mode' before
\* any frame is built: nothing is written and the sequence counter is
\* unchanged. With 'lock', 'follow' or 'fpv' it sends exactly one frame whose
\* 2-byte payload is [mode value, 0] and consumes exactly one sequence id.
C36_SetMode ==
    [][\A c \in Conns : \A mode \in ModeNames :
          GimbalSetMode(c, mode) =>
              IF mode \in KnownModeNames
              THEN /\ SendsModeFrame(c, modeMap[mode])
                   /\ msgSeq' = msgSeq + 1
              ELSE /\ cmdError'[c] = "unknownMode"
                   /\ written' = written
                   /\ built' = built
                   /\ msgSeq' = msgSeq]_vars

----------------------------------------------------------------------------
(* Claims about repeated connections of one OsmoConnection (SpecReconnect) *)

\* C16: the pairing session is discarded at disconnect: every connect()
\* starts with _paired false, and _paired is true only if a qualifying
\* pairing response was received since the current connect().
C16_SessionPerConnection ==
    \A c \in Conns :
        /\ pairedAtConnect[c] = FALSE
        /\ paired[c] => CountSinceConnect(c, "paired") >= 1

\* C17: the framer carries no bytes from one connection to the next: whenever
\* the link of a connection comes up, the receive remainder is empty.
C17_NoStaleRemainder ==
    \A c \in Conns : bufAtConnect[c] = <<>>

============================================================================
